---- MODULE Spec2Model ----
(***************************************************************************)
(* A state-machine model of the GitHub-to-Trello repository analyzer:     *)
(*   - GitHubAnalyzer.analyze_code_quality   (the structural audit)       *)
(*   - AIAnalyzer._perform_ai_analysis       (the provider chain)         *)
(*   - TrelloManager                          (the task-board mapper)      *)
(*   - CodeAnalyzer.analyze_file_content      (the file scanner)           *)
(*   - CodeAnalyzer.get_analysis_summary      (the counts of a result)     *)
(*   - the analyze_repository tool and run_full_mcp_workflow               *)
(* Each component has its own specification (SpecAudit, SpecAI, ...); the *)
(* variables of the components a specification does not run stay idle.    *)
(***************************************************************************)
EXTENDS Integers, Sequences, FiniteSets, TLC

VARIABLES
    repo,            \* the remote repository: path -> kind of what is there
    code_quality,    \* analyze_code_quality's result, <<>> before the call
    openai_client,   \* AIAnalyzer.openai_client is set (an OpenAI key was given)
    anthropic_client,\* AIAnalyzer.anthropic_client is set
    sample_files,    \* the sample files handed to analyze_repository_with_ai
    aiPc,            \* where the call of analyze_repository_with_ai stands
    aiCalls,         \* the provider calls made so far in this call, in order
    ai_analysis,     \* the AIAnalysisResult returned, <<>> before the return
    board,           \* TrelloManager.board is a handle (FALSE: it is None)
    lists_cache,     \* TrelloManager._lists_cache: <<>> for None, else <<the list>>
    labels_cache,    \* TrelloManager._labels_cache: <<>> for None, else <<the list>>
    boardLists,      \* the lists of the remote board
    boardLabels,     \* the labels of the remote board
    boardCards,      \* the cards of the remote board, in creation order
    batchOp,         \* the TrelloManager operation running
    batchItems,      \* the items it goes through
    batchPos,        \* the index of the item it handles next
    batchPc,         \* "idle", "running", "returned", or "raised" (an exception left it)
    created_cards,   \* the operation's created_cards list
    card_calls,      \* the create_card calls made so far: what was asked, what came back
    faultsLeft,      \* how many more collaborator calls may fail
    entry,           \* the entry point running: the tool or the workflow script
    toolPc,          \* where the entry point stands
    github_analyzer, \* a GitHub token is configured (the analyzer is built)
    trello_manager,  \* the Trello credentials are configured (the manager is built)
    repo_url,        \* the repository_url argument (repo_name of the workflow)
    repo_found,      \* get_repository returns a repository (FALSE: None)
    create_trello_tasks, \* the create_trello_tasks argument
    recent_issues,   \* what get_recent_issues returns
    combined_analysis, \* combined_analysis, <<>> before it is built
    analysis_cards,  \* create_analysis_cards' result, <<>> before the call returns
    issue_cards,     \* create_issue_cards' result, <<>> before the call returns
    trello_results,  \* trello_results
    payload,         \* what the entry point returned, <<>> while it runs
    scan_content,    \* the content handed to analyze_file_content
    scan_filename,   \* the filename handed to analyze_file_content
    scan_result,     \* what analyze_file_content returned, <<>> before it returns
    summary_analysis,\* the analysis handed to get_analysis_summary
    summary,          \* what get_analysis_summary returned, <<>> before it returns
    list_github, \* a GitHub token is configured when list_repositories is called
    list_username, \* the username argument of list_repositories
    list_remote, \* what the code host answers for the user's repositories
    list_payload, \* what the list_repositories tool returned, <<>> before it returns
    analyzer_patterns, \* CodeAnalyzer.issue_patterns of the analyzer that is called repeatedly
    analyzer_calls, \* the analyze_file_content calls made on it: arguments and result
    files_repo, \* the repository handed to analyze_repository_files: its root listing
    files_max, \* the max_files argument
    files_result \* what analyze_repository_files returned, <<>> before it returns

auditVars == <<repo, code_quality>>
aiVars == <<openai_client, anthropic_client, sample_files, aiPc, aiCalls, ai_analysis>>
managerVars == <<board, lists_cache, labels_cache, boardLists, boardLabels, boardCards>>
batchVars == <<batchOp, batchItems, batchPos, batchPc, created_cards, card_calls, faultsLeft>>
boardVars == <<managerVars, batchVars>>
toolVars == <<entry, toolPc, github_analyzer, trello_manager, repo_url, repo_found,
              create_trello_tasks, recent_issues, combined_analysis, analysis_cards,
              issue_cards, trello_results, payload>>
scanVars == <<scan_content, scan_filename, scan_result>>
summaryVars == <<summary_analysis, summary>>
listVars == <<list_github, list_username, list_remote, list_payload>>
callVars == <<analyzer_patterns, analyzer_calls>>
filesVars == <<files_repo, files_max, files_result>>
vars == <<auditVars, aiVars, boardVars, toolVars, scanVars, summaryVars, listVars, callVars, filesVars>>

\* what the actions of one component leave alone
notAudit == <<aiVars, boardVars, toolVars, scanVars, summaryVars, listVars, callVars, filesVars>>
notAi == <<auditVars, boardVars, toolVars, scanVars, summaryVars, listVars, callVars, filesVars>>
notBoard == <<auditVars, aiVars, toolVars, scanVars, summaryVars, listVars, callVars, filesVars>>
notScan == <<auditVars, aiVars, boardVars, toolVars, summaryVars, listVars, callVars, filesVars>>
notSummary == <<auditVars, aiVars, boardVars, toolVars, scanVars, listVars, callVars, filesVars>>
notList == <<auditVars, aiVars, boardVars, toolVars, scanVars, summaryVars, callVars, filesVars>>
notCalls == <<auditVars, aiVars, boardVars, toolVars, scanVars, summaryVars, listVars, filesVars>>
notFiles == <<auditVars, aiVars, boardVars, toolVars, scanVars, summaryVars, listVars, callVars>>

\* Python's None where a string may stand.
None == "None"

\* A variable that holds a record once it is assigned holds Unset before, and
\* <<record>> after.
Unset == <<>>

(***************************************************************************)
(* The structural audit: GitHubAnalyzer.analyze_code_quality               *)
(***************************************************************************)

ReadmePath == "README.md"
LicenseFiles == <<"LICENSE", "LICENSE.md", "LICENSE.txt">>
ReqFiles == <<"requirements.txt", "pyproject.toml", "setup.py", "package.json">>
TestDirs == <<"tests", "test", "spec", "__tests__">>
WorkflowsPath == ".github/workflows/"

\* f"{d}/" for d in test_dirs
TestDirPath(d) == CASE d = "tests" -> "tests/"
                    [] d = "test" -> "test/"
                    [] d = "spec" -> "spec/"
                    [] d = "__tests__" -> "__tests__/"

Range(s) == {s[i] : i \in DOMAIN s}

FilePaths == {ReadmePath} \cup Range(LicenseFiles) \cup Range(ReqFiles)
DirPaths == {TestDirPath(d) : d \in Range(TestDirs)} \cup {WorkflowsPath}
AuditPaths == FilePaths \cup DirPaths

\* What the code host holds at a path: nothing, a file with empty content, a
\* file with text, or a directory.
PathKinds == {"absent", "emptyfile", "file", "dir"}

\* The decoded content of a file, as far as the audit reads it.
FileText == "text"

\* get_file_content: get_contents raises GithubException on a missing path
\* (None); a directory comes back as a list, which is no ContentFile (None);
\* a file comes back decoded, the empty string for an empty file.
get_file_content(r, path) ==
    CASE r[path] = "absent" -> None
      [] r[path] = "dir" -> None
      [] r[path] = "emptyfile" -> ""
      [] r[path] = "file" -> FileText

\* Python truthiness of an Optional[str]
Truthy(v) == v # None /\ v # ""

ReadmeDeduction == 10
LicenseDeduction == 5
DepsDeduction_lenient == 15 - 5
DepsDeduction == 15
TestsDeduction == 10

MissingReadmeIssue ==
    [type |-> "documentation", severity |-> "medium", title |-> "Missing README.md",
     description |-> "Repository lacks a README file which is essential for project documentation."]
MissingLicenseIssue ==
    [type |-> "legal", severity |-> "medium", title |-> "Missing License",
     description |-> "Repository does not have a license file, which may limit its usability."]
MissingDepsIssue ==
    [type |-> "setup", severity |-> "high", title |-> "Missing Dependencies File",
     description |-> "No dependency management file found, making it difficult to set up the project."]
MissingTestsIssue ==
    [type |-> "testing", severity |-> "medium", title |-> "Missing Tests",
     description |-> "No test directory found, which may indicate lack of testing."]
CiCdSuggestion ==
    [type |-> "ci_cd", title |-> "Consider Adding CI/CD",
     description |-> "Adding GitHub Actions or other CI/CD would improve development workflow."]

\* any(self.get_file_content(repo, f) for f in files)
AnyContent(r, paths) == \E p \in paths : Truthy(get_file_content(r, p))

analyze_code_quality(r) ==
    LET no_readme == ~Truthy(get_file_content(r, ReadmePath))
        no_license == ~AnyContent(r, Range(LicenseFiles))
        no_requirements == ~AnyContent(r, Range(ReqFiles))
        no_tests == ~AnyContent(r, {TestDirPath(d) : d \in Range(TestDirs)})
        no_ci == ~Truthy(get_file_content(r, WorkflowsPath))
    IN  [issues |->
            (IF no_readme THEN <<MissingReadmeIssue>> ELSE <<>>)
            \o (IF no_license THEN <<MissingLicenseIssue>> ELSE <<>>)
            \o (IF no_requirements THEN <<MissingDepsIssue>> ELSE <<>>)
            \o (IF no_tests THEN <<MissingTestsIssue>> ELSE <<>>),
         suggestions |-> IF no_ci THEN <<CiCdSuggestion>> ELSE <<>>,
         score |-> 100
            - (IF no_readme THEN ReadmeDeduction ELSE 0)
            - (IF no_license THEN LicenseDeduction ELSE 0)
            - (IF no_requirements THEN DepsDeduction ELSE 0)
            - (IF no_tests THEN TestsDeduction ELSE 0)]

\* The repositories the audit is run on: every file path absent or a file with
\* text, the first name of each group also an empty file; every directory path
\* absent or a directory, the first test name also a regular file of that name.
MayBeEmpty == {ReadmePath, LicenseFiles[1], ReqFiles[1]}
MayBeFile == {TestDirPath(TestDirs[1])}

Repos == {[p \in AuditPaths |->
              IF p \notin present THEN "absent"
              ELSE IF p \in DirPaths THEN (IF p \in plain THEN "file" ELSE "dir")
              ELSE IF p \in empty THEN "emptyfile" ELSE "file"] :
          present \in SUBSET AuditPaths, empty \in SUBSET MayBeEmpty,
          plain \in SUBSET MayBeFile}

AuditIdle == repo = [p \in AuditPaths |-> "absent"] /\ code_quality = Unset

Audit ==
    /\ code_quality = Unset
    /\ code_quality' = <<analyze_code_quality(repo)>>
    /\ UNCHANGED <<repo, notAudit>>

(***************************************************************************)
(* The AI assist adapter: AIAnalyzer                                       *)
(***************************************************************************)

Min(a, b) == IF a < b THEN a ELSE b
Max(a, b) == IF a > b THEN a ELSE b

\* Python's s[a:b] on a sequence, a and b 0-based, negative counting from the end.
Slice(s, a, b) ==
    LET n == Len(s)
        lo == IF a < 0 THEN Max(n + a, 0) ELSE Min(a, n)
        hi == IF b < 0 THEN Max(n + b, 0) ELSE Min(b, n)
    IN  IF lo >= hi THEN <<>> ELSE SubSeq(s, lo + 1, hi)

\* dict.get(key, default) on a record
Get(d, key, default) == IF key \in DOMAIN d THEN d[key] ELSE default

\* A completion is a text, modelled as a sequence of tokens: a stretch of
\* text without braces, an opening brace, a closing brace, or the members of a
\* JSON object (with the object they denote).
TText == [t |-> "text"]
TOpen == [t |-> "{"]
TClose == [t |-> "}"]
TMembers(obj) == [t |-> "members", v |-> obj]

\* str.find / str.rfind of a one-token needle: 0-based index, -1 when absent
Find(s, tok) ==
    IF \E i \in DOMAIN s : s[i].t = tok
    THEN (CHOOSE i \in DOMAIN s : s[i].t = tok /\ \A j \in 1..(i - 1) : s[j].t # tok) - 1
    ELSE -1
RFind(s, tok) ==
    IF \E i \in DOMAIN s : s[i].t = tok
    THEN (CHOOSE i \in DOMAIN s : s[i].t = tok /\ \A j \in (i + 1)..Len(s) : s[j].t # tok) - 1
    ELSE -1

\* A dict without keys
EmptyDict == <<>>

\* json.loads: the text is one JSON object, or JSONDecodeError
JsonLoads(json_str) ==
    IF Len(json_str) = 3 /\ json_str[1].t = "{" /\ json_str[2].t = "members"
       /\ json_str[3].t = "}"
    THEN [ok |-> TRUE, data |-> json_str[2].v]
    ELSE IF Len(json_str) = 2 /\ json_str[1].t = "{" /\ json_str[2].t = "}"
    THEN [ok |-> TRUE, data |-> EmptyDict]
    ELSE [ok |-> FALSE]

\* A JSON value that is an object, and one that is not (a string, a number).
JDict(d) == [j |-> "dict", v |-> d]
JString == [j |-> "str"]

\* _fallback_analysis
FallbackResult ==
    [issues |-> <<[type |-> "ai_unavailable", severity |-> "medium",
                   title |-> "AI Analysis Unavailable",
                   description |-> "AI-powered analysis could not be performed. Check API keys and try again.",
                   file |-> "N/A", line |-> "N/A",
                   suggestion |-> "Ensure OpenAI or Anthropic API keys are properly configured."]>>,
     suggestions |-> <<[type |-> "improvement", title |-> "Enable AI Analysis",
                        description |-> "Configure AI API keys to get more detailed code analysis.",
                        priority |-> "medium",
                        impact |-> "Better code quality insights and security analysis."]>>,
     code_quality_score |-> 70,
     security_score |-> 70,
     maintainability_score |-> 70,
     detailed_analysis |-> "AI analysis was not available. Using basic analysis instead."]

DefaultScore == 70

\* analysis_data.get('scores', {}): .get on it raises AttributeError when the
\* provider's "scores" is no object
ScoresIsDict(analysis_data) == Get(analysis_data, "scores", JDict(EmptyDict)).j = "dict"

\* analysis_data.get('scores', {}).get(name, 70)
ScoreOf(analysis_data, name) ==
    Get(Get(analysis_data, "scores", JDict(EmptyDict)).v, name, DefaultScore)

\* What _analyze_with_openai / _analyze_with_anthropic do with the provider's
\* answer: the call itself raises; the completion does not parse, and the
\* fallback result is returned; the completion parses.
analyze_with_provider(response) ==
    IF response.kind = "raise" THEN [raised |-> TRUE, outcome |-> "call_raised"]
    ELSE
    LET content == response.content
        json_start == Find(content, "{")
        json_end == RFind(content, "}") + 1
        json_str == Slice(content, json_start, json_end)
        parsed == JsonLoads(json_str)
    IN  IF ~parsed.ok
        THEN [raised |-> FALSE, outcome |-> "unparsable", result |-> FallbackResult]
        ELSE IF ~ScoresIsDict(parsed.data)
        THEN [raised |-> TRUE, outcome |-> "scores_not_dict"]
        ELSE [raised |-> FALSE, outcome |-> "parsed",
              result |-> [issues |-> Get(parsed.data, "issues", <<>>),
                          suggestions |-> Get(parsed.data, "suggestions", <<>>),
                          code_quality_score |-> ScoreOf(parsed.data, "code_quality"),
                          security_score |-> ScoreOf(parsed.data, "security"),
                          maintainability_score |-> ScoreOf(parsed.data, "maintainability"),
                          detailed_analysis |->
                              Get(parsed.data, "detailed_analysis", "AI analysis completed.")]]

\* The objects a provider's completion may hold.
AiIssue ==
    [type |-> "security", severity |-> "critical", title |-> "SQL injection",
     description |-> "User input reaches a query unescaped.", file |-> "app.py",
     line |-> "10", suggestion |-> "Use bound parameters."]
\* an object json.loads accepts as well: no title, an empty description, a
\* severity of the provider's own
AiLooseIssue == [type |-> "style", severity |-> "blocker", description |-> ""]
AiSuggestion ==
    [type |-> "refactoring", title |-> "Split the handler",
     description |-> "The request handler does too much.", priority |-> "low",
     impact |-> "Readability"]

Payloads ==
    { EmptyDict,
      [issues |-> <<AiIssue>>, suggestions |-> <<AiSuggestion>>,
       scores |-> JDict([code_quality |-> 81, security |-> 90, maintainability |-> 61]),
       detailed_analysis |-> "Looks fine."],
      [issues |-> <<AiIssue>>, scores |-> JDict([code_quality |-> 54])],
      [issues |-> <<AiLooseIssue>>,
       scores |-> JDict([code_quality |-> 250, security |-> 250, maintainability |-> -40])],
      [scores |-> JString] }

Completions ==
    { <<TText>>, <<TOpen, TText>>, <<TOpen, TText, TClose>>, <<TOpen, TClose>> }
    \cup { <<TOpen, TMembers(p), TClose>> : p \in Payloads }
    \cup { <<TText, TOpen, TMembers(p), TClose, TText>> : p \in Payloads }
    \cup { <<TOpen, TText, TClose, TText, TOpen, TMembers(p), TClose>> : p \in Payloads }

Responses ==
    { [kind |-> "raise"] } \cup { [kind |-> "completion", content |-> c] : c \in Completions }

\* A sample file is text, bytes that are not UTF-8, a directory (get_contents
\* returns a list), or a path get_contents fails on with GithubException.
SampleKinds == {"text", "binary", "dir", "error"}
MaxSampleFiles == 2
SampleCap == 10

SeqsUpTo(S, n) == UNION {[1..k -> S] : k \in 0..n}

\* _prepare_code_samples: only GithubException is caught; .decode('utf-8')
\* raises UnicodeDecodeError on the first file that is not UTF-8.
PrepareRaises(files) ==
    \E i \in DOMAIN Slice(files, 0, SampleCap) : files[i] = "binary"

\* aiCalls holds one entry per provider call: which provider, and how the
\* call ended ("pending" while it runs).
Call(provider) == [provider |-> provider, outcome |-> "pending"]
Ended(calls, outcome) == [calls EXCEPT ![Len(calls)].outcome = outcome]

\* analyze_repository_with_ai, up to the first provider call
AiSampleRaises ==
    /\ aiPc = "start"
    /\ PrepareRaises(sample_files)
    /\ aiPc' = "raised"
    /\ UNCHANGED <<openai_client, anthropic_client, sample_files, aiCalls, ai_analysis, notAi>>

AiCallOpenAI ==
    /\ aiPc = "start"
    /\ ~PrepareRaises(sample_files)
    /\ openai_client
    /\ aiPc' = "openai_pending"
    /\ aiCalls' = Append(aiCalls, Call("openai"))
    /\ UNCHANGED <<openai_client, anthropic_client, sample_files, ai_analysis, notAi>>

\* a chain that begins with Anthropic whenever it is configured
AiCallAnthropic_first ==
    /\ aiPc = "start"
    /\ ~PrepareRaises(sample_files)
    /\ anthropic_client
    /\ aiPc' = "anthropic_pending"
    /\ aiCalls' = Append(aiCalls, Call("anthropic"))
    /\ UNCHANGED <<openai_client, anthropic_client, sample_files, ai_analysis, notAi>>

AiCallAnthropic ==
    /\ aiPc = "start"
    /\ ~PrepareRaises(sample_files)
    /\ ~openai_client
    /\ anthropic_client
    /\ aiPc' = "anthropic_pending"
    /\ aiCalls' = Append(aiCalls, Call("anthropic"))
    /\ UNCHANGED <<openai_client, anthropic_client, sample_files, ai_analysis, notAi>>

AiNoProvider ==
    /\ aiPc = "start"
    /\ ~PrepareRaises(sample_files)
    /\ ~openai_client
    /\ ~anthropic_client
    /\ ai_analysis' = <<FallbackResult>>
    /\ aiPc' = "done"
    /\ UNCHANGED <<openai_client, anthropic_client, sample_files, aiCalls, notAi>>

\* _perform_ai_analysis after the OpenAI call: its result is returned, or on
\* an exception the Anthropic client is tried, or the fallback returned.
OpenAIReturns ==
    /\ aiPc = "openai_pending"
    /\ \E response \in Responses :
        LET r == analyze_with_provider(response)
        IN  IF ~r.raised
            THEN /\ ai_analysis' = <<r.result>>
                 /\ aiPc' = "done"
                 /\ aiCalls' = Ended(aiCalls, r.outcome)
            ELSE IF anthropic_client
            THEN /\ aiPc' = "anthropic_pending"
                 /\ aiCalls' = Append(Ended(aiCalls, r.outcome), Call("anthropic"))
                 /\ UNCHANGED ai_analysis
            ELSE /\ ai_analysis' = <<FallbackResult>>
                 /\ aiPc' = "done"
                 /\ aiCalls' = Ended(aiCalls, r.outcome)
    /\ UNCHANGED <<openai_client, anthropic_client, sample_files, notAi>>

AnthropicReturns ==
    /\ aiPc = "anthropic_pending"
    /\ \E response \in Responses :
        LET r == analyze_with_provider(response)
        IN  /\ ai_analysis' = <<IF r.raised THEN FallbackResult ELSE r.result>>
            /\ aiPc' = "done"
            /\ aiCalls' = Ended(aiCalls, r.outcome)
    /\ UNCHANGED <<openai_client, anthropic_client, sample_files, notAi>>

AiIdle ==
    /\ openai_client = FALSE
    /\ anthropic_client = FALSE
    /\ sample_files = <<>>
    /\ aiPc = "idle"
    /\ aiCalls = <<>>
    /\ ai_analysis = Unset

(***************************************************************************)
(* The task-board mapper: TrelloManager                                    *)
(***************************************************************************)

\* str.lower() on the names the model uses
StrLower(s) ==
    CASE s = "To Do" -> "to do"
      [] s = "Bugs" -> "bugs"
      [] s = "Enhancements" -> "enhancements"
      [] s = "High Priority" -> "high priority"
      [] s = "Critical" -> "critical"
      [] s = "Suggestions" -> "suggestions"
      [] s = "Summary" -> "summary"
      [] s = "Backlog" -> "backlog"
      [] s = "Bug" -> "bug"
      [] s = "Enhancement" -> "enhancement"
      [] s = "High" -> "high"
      [] s = "Security" -> "security"
      [] s = "Octo/Demo" -> "octo/demo"
      [] OTHER -> s

\* A collaborator call that fails raises ResourceUnavailable ("unavailable":
\* the board answered with an error status) or another exception ("other": a
\* transport error, say). A fault names the call of one create_card that fails,
\* the first of that name.
NoFault == [call |-> "none", kind |-> "none"]
RemoteCalls == {"list_lists", "get_list", "add_card", "get_labels", "add_label", "add_labels"}
Faults == {[call |-> c, kind |-> k] : c \in RemoteCalls, k \in {"unavailable", "other"}}

\* an id that is None
NoId == 0

\* The manager and the remote board, as one value the methods transform. A
\* method yields [m: the value after it, ret: what it returns, raised: an
\* exception left it, f: the fault still to come].
Manager ==
    [board |-> board, lists_cache |-> lists_cache, labels_cache |-> labels_cache,
     lists |-> boardLists, labels |-> boardLabels, cards |-> boardCards]

Returns(m, ret, f) == [m |-> m, ret |-> ret, raised |-> FALSE, f |-> f]
Raises(m, f) == [m |-> m, ret |-> NoId, raised |-> TRUE, f |-> f]

\* get_lists: the cache once set is returned as it is; a ResourceUnavailable
\* sets it to [].
get_lists(m, f) ==
    IF m.lists_cache # Unset THEN Returns(m, m.lists_cache[1], f)
    ELSE IF ~m.board THEN Returns(m, <<>>, f)
    ELSE IF f.call = "list_lists"
    THEN IF f.kind = "unavailable"
         THEN Returns([m EXCEPT !.lists_cache = << <<>> >>], <<>>, NoFault)
         ELSE Raises(m, NoFault)
    ELSE Returns([m EXCEPT !.lists_cache = <<m.lists>>], m.lists, f)

get_labels(m, f) ==
    IF m.labels_cache # Unset THEN Returns(m, m.labels_cache[1], f)
    ELSE IF ~m.board THEN Returns(m, <<>>, f)
    ELSE IF f.call = "get_labels"
    THEN IF f.kind = "unavailable"
         THEN Returns([m EXCEPT !.labels_cache = << <<>> >>], <<>>, NoFault)
         ELSE Raises(m, NoFault)
    ELSE Returns([m EXCEPT !.labels_cache = <<m.labels>>], m.labels, f)

\* the first entry whose name equals `name` ignoring case; 0 when there is none
IndexByName(entries, name) ==
    LET hit(i) == StrLower(entries[i].name) = StrLower(name)
    IN  IF \E i \in DOMAIN entries : hit(i)
        THEN CHOOSE i \in DOMAIN entries : hit(i) /\ \A j \in 1..(i - 1) : ~hit(j)
        ELSE 0

create_label(m, name, color, f) ==
    IF ~m.board THEN Returns(m, NoId, f)
    ELSE IF f.call = "add_label"
    THEN IF f.kind = "unavailable" THEN Returns(m, NoId, NoFault) ELSE Raises(m, NoFault)
    ELSE LET id == Len(m.labels) + 1
         IN  Returns([m EXCEPT !.labels = Append(@, [id |-> id, name |-> name, color |-> color]),
                               !.labels_cache = Unset],
                     id, f)

DefaultLabelColor == "blue"

\* `v` evaluated once and handed to K: the value of a statement, bound to a name
\* for the statements after it.
Then(v, K(_)) == CHOOSE out \in {K(x) : x \in {v}} : TRUE

get_or_create_label(m, name, color, f) ==
    Then(get_labels(m, f), LAMBDA g :
        IF g.raised THEN g
        ELSE Then(IndexByName(g.ret, name), LAMBDA i :
            IF i # 0 THEN Returns(g.m, g.ret[i].id, g.f)
            ELSE create_label(g.m, name, color, g.f)))

get_list_by_name(m, list_name, f) ==
    Then(get_lists(m, f), LAMBDA g :
        IF g.raised THEN g
        ELSE Then(IndexByName(g.ret, list_name), LAMBDA i :
            Returns(g.m, IF i = 0 THEN NoId ELSE g.ret[i].id, g.f)))

\* create_card's loop over the label names: the ids of the labels found or created
RECURSIVE LabelIds(_, _, _, _)
LabelIds(m, names, f, label_ids) ==
    IF names = <<>> THEN Returns(m, label_ids, f)
    ELSE Then(get_or_create_label(m, Head(names), DefaultLabelColor, f), LAMBDA r :
            IF r.raised THEN r
            ELSE Then(IF r.ret # NoId THEN Append(label_ids, r.ret) ELSE label_ids,
                      LAMBDA ids : LabelIds(r.m, Tail(names), r.f, ids)))

\* create_card returns None
NoCard == <<>>

\* A collaborator call of create_card itself: ResourceUnavailable is caught by
\* create_card (None is returned), any other exception leaves it.
CallFails(m, f) == IF f.kind = "unavailable" THEN Returns(m, NoCard, NoFault) ELSE Raises(m, NoFault)

\* create_card, from the card's creation on
AddCard(m, title, list_name, list_id, labels, f) ==
    IF f.call \in {"get_list", "add_card"} THEN CallFails(m, f)
    ELSE
    LET id == Len(m.cards) + 1
        m1 == [m EXCEPT !.cards = Append(@, [id |-> id, name |-> title,
                                             idList |-> list_id, idLabels |-> <<>>])]
        card == [id |-> id, name |-> title, list_name |-> list_name, labels |-> labels]
    IN  IF labels = <<>> THEN Returns(m1, <<card>>, f)
        ELSE Then(LabelIds(m1, labels, f, <<>>), LAMBDA L :
            IF L.raised THEN L
            ELSE IF L.ret = <<>> THEN Returns(L.m, <<card>>, L.f)
            ELSE IF L.f.call = "add_labels" THEN CallFails(L.m, L.f)
            ELSE Returns([L.m EXCEPT !.cards[id].idLabels = L.ret], <<card>>, L.f))

create_card(m, title, list_name, labels, f) ==
    IF ~m.board THEN Returns(m, NoCard, f)
    ELSE Then(get_list_by_name(m, list_name, f), LAMBDA g :
        IF g.raised THEN g
        ELSE IF g.ret # NoId THEN AddCard(g.m, title, list_name, g.ret, labels, g.f)
        ELSE Then(get_lists(g.m, g.f), LAMBDA lists :
            IF lists.raised THEN lists
            ELSE IF lists.ret = <<>> THEN Returns(lists.m, NoCard, lists.f)
            ELSE AddCard(lists.m, title, list_name, lists.ret[1].id, labels, lists.f)))

\* the same without the "critical" branch
IssueListName_flat(issue) ==
    IF Get(issue, "severity", None) = "high" THEN "High Priority" ELSE "To Do"

\* create_analysis_cards: the list an issue's card goes to
IssueListName(issue) ==
    IF Get(issue, "severity", None) = "high" THEN "High Priority"
    ELSE IF Get(issue, "severity", None) = "critical" THEN "Critical"
    ELSE "To Do"

\* create_issue_cards: the list a GitHub issue's card goes to
LowerLabels(issue) == {StrLower(l) : l \in Range(Get(issue, "labels", <<>>))}
RemoteIssueListName(issue) ==
    IF "bug" \in LowerLabels(issue) THEN "Bugs"
    ELSE IF "enhancement" \in LowerLabels(issue) THEN "Enhancements"
    ELSE "To Do"

SuggestionListName == "Suggestions"
SummaryListName == "Summary"

\* create_summary_card: the colour label of the score
ScoreColor(score) == IF score >= 80 THEN "green" ELSE IF score >= 60 THEN "yellow" ELSE "red"

\* One create_card call of an operation: its arguments for an item. A title
\* that an f-string builds is the sequence of its pieces.
CardArgs(it, repo_name) ==
    CASE it.kind = "issue" ->
            [title |-> <<Get(it.item, "title", "Code Analysis Issue")>>,
             list_name |-> IssueListName(it.item),
             labels |-> <<repo_name, Get(it.item, "type", "analysis"),
                          Get(it.item, "severity", "medium")>>]
      [] it.kind = "suggestion" ->
            [title |-> <<Get(it.item, "title", "Code Analysis Suggestion")>>,
             list_name |-> SuggestionListName,
             labels |-> <<repo_name, "suggestion", Get(it.item, "type", "improvement")>>]
      [] it.kind = "github_issue" ->
            [title |-> <<"Issue #", it.item.number, ": ", it.item.title>>,
             list_name |-> RemoteIssueListName(it.item),
             labels |-> <<repo_name>> \o Get(it.item, "labels", <<>>)]
      [] it.kind = "summary" ->
            [title |-> <<"Analysis Summary: ", Get(it.item.repo_info, "name", "Repository")>>,
             list_name |-> SummaryListName,
             labels |-> <<Get(it.item.repo_info, "full_name", "repo"), "summary",
                          ScoreColor(Get(it.item.analysis, "score", 0))>>]

Tag(kind, items) == [i \in DOMAIN items |-> [kind |-> kind, item |-> items[i]]]

\* the create_card calls create_analysis_cards makes: the issues, then the suggestions
AnalysisItems(analysis) ==
    Tag("issue", Get(analysis, "issues", <<>>))
    \o Tag("suggestion", Get(analysis, "suggestions", <<>>))

RepoName == "octo/demo"

\* One turn of the loop of create_analysis_cards / create_issue_cards, or
\* create_summary_card's one call: create_card for the next item.
CreateCardStep ==
    /\ batchPc = "running"
    /\ batchPos <= Len(batchItems)
    /\ \E f \in (IF faultsLeft > 0 THEN Faults ELSE {}) \cup {NoFault} :
        \E args \in {CardArgs(batchItems[batchPos], RepoName)} :
        \E r \in {create_card(Manager, args.title, args.list_name, args.labels, f)} :
            /\ board' = r.m.board
            /\ lists_cache' = r.m.lists_cache
            /\ labels_cache' = r.m.labels_cache
            /\ boardLists' = r.m.lists
            /\ boardLabels' = r.m.labels
            /\ boardCards' = r.m.cards
            /\ faultsLeft' = IF r.f = NoFault /\ f # NoFault THEN faultsLeft - 1 ELSE faultsLeft
            /\ card_calls' = Append(card_calls,
                                    [pos |-> batchPos, list_name |-> args.list_name,
                                     raised |-> r.raised,
                                     card |-> IF r.raised THEN NoCard ELSE r.ret])
            /\ IF r.raised
               THEN batchPc' = "raised" /\ UNCHANGED <<created_cards, batchPos>>
               ELSE /\ created_cards' = created_cards \o r.ret
                    /\ batchPos' = batchPos + 1
                    /\ UNCHANGED batchPc
    /\ UNCHANGED <<batchOp, batchItems, notBoard>>

\* the loop is over: return created_cards
BatchReturn ==
    /\ batchPc = "running"
    /\ batchPos > Len(batchItems)
    /\ batchPc' = "returned"
    /\ UNCHANGED <<managerVars, batchOp, batchItems, batchPos, created_cards, card_calls,
                   faultsLeft, notBoard>>

\* The inputs of the operations.
IssueSamples ==
    { [type |-> "security", severity |-> "critical", title |-> "SQL injection",
       description |-> "User input reaches a query unescaped."],
      MissingDepsIssue,
      MissingReadmeIssue,
      [type |-> "code_quality", severity |-> "low", title |-> "Code Quality Issue in a.py",
       description |-> "Code quality issue found on line 1: TODO: x"],
      [type |-> "security", severity |-> "High", title |-> "Weak hash",
       description |-> "MD5 is used."],
      [title |-> "Untyped finding", description |-> "No type, no severity."] }

SuggestionSamples ==
    { CiCdSuggestion, [title |-> "Enable AI Analysis", description |-> "Configure AI API keys."] }

GithubIssueSamples ==
    { [number |-> "7", title |-> "Crash on start", labels |-> <<"bug">>],
      [number |-> "8", title |-> "Dark mode", labels |-> <<"enhancement">>],
      [number |-> "9", title |-> "Crash on exit", labels |-> <<"Bug">>],
      [number |-> "10", title |-> "Both", labels |-> <<"enhancement", "bug">>],
      [number |-> "11", title |-> "How do I?", labels |-> <<"question">>],
      [number |-> "12", title |-> "No labels", labels |-> <<>>] }

RepoInfo == [name |-> "demo", full_name |-> RepoName]

SummaryScores == {85, 60, 35}

MaxIssues == 1
MaxSuggestions == 1
MaxGithubIssues == 2
MaxFaults == 1

AnalysisBatches ==
    { AnalysisItems([issues |-> is, suggestions |-> ss, score |-> 75]) :
        is \in SeqsUpTo(IssueSamples, MaxIssues),
        ss \in SeqsUpTo(SuggestionSamples, MaxSuggestions) }

GithubIssueBatches == { Tag("github_issue", gi) : gi \in SeqsUpTo(GithubIssueSamples, MaxGithubIssues) }

SummaryCalls ==
    { <<[kind |-> "summary",
         item |-> [repo_info |-> RepoInfo, analysis |-> [score |-> sc], total_cards_created |-> 0]]>> :
        sc \in SummaryScores }

\* The remote boards: the lists the set-up script makes, a board with other
\* lists, a board without lists; no labels yet, or some.
ListsOf(names) == [i \in DOMAIN names |-> [id |-> i, name |-> names[i]]]
BoardListChoices ==
    { ListsOf(<<"To Do", "Bugs", "Enhancements", "High Priority", "Critical",
                "Suggestions", "Summary">>),
      ListsOf(<<"Backlog", "to do">>),
      <<>> }
BoardLabelChoices ==
    { <<>>,
      <<[id |-> 1, name |-> "Security", color |-> "red"],
        [id |-> 2, name |-> "Octo/Demo", color |-> "black"]>> }

ManagerInit ==
    /\ board \in BOOLEAN
    /\ lists_cache = Unset
    /\ labels_cache = Unset
    /\ boardLists \in BoardListChoices
    /\ boardLabels \in BoardLabelChoices
    /\ boardCards = <<>>

BatchInit ==
    /\ \/ batchOp = "create_analysis_cards" /\ batchItems \in AnalysisBatches
       \/ batchOp = "create_issue_cards" /\ batchItems \in GithubIssueBatches
       \/ batchOp = "create_summary_card" /\ batchItems \in SummaryCalls
    /\ batchPos = 1
    /\ batchPc = "running"
    /\ created_cards = <<>>
    /\ card_calls = <<>>
    /\ faultsLeft = MaxFaults

BoardIdle ==
    /\ board = FALSE
    /\ lists_cache = Unset
    /\ labels_cache = Unset
    /\ boardLists = <<>>
    /\ boardLabels = <<>>
    /\ boardCards = <<>>
    /\ batchOp = "none"
    /\ batchItems = <<>>
    /\ batchPos = 1
    /\ batchPc = "idle"
    /\ created_cards = <<>>
    /\ card_calls = <<>>
    /\ faultsLeft = 0

(***************************************************************************)
(* The file scanner: CodeAnalyzer.analyze_file_content                     *)
(* A text is the sequence of its characters.                               *)
(***************************************************************************)

Whitespace == {" ", "\t", "\n", "\r", "\f"}

UpperLetters == <<"A", "B", "C", "D", "E", "F", "G", "H", "I", "J", "K", "L", "M",
                  "N", "O", "P", "Q", "R", "S", "T", "U", "V", "W", "X", "Y", "Z">>
LowerLetters == <<"a", "b", "c", "d", "e", "f", "g", "h", "i", "j", "k", "l", "m",
                  "n", "o", "p", "q", "r", "s", "t", "u", "v", "w", "x", "y", "z">>

\* str.lower, one character and a text
LowerOf == [c \in {UpperLetters[i] : i \in DOMAIN UpperLetters} |->
                LowerLetters[CHOOSE i \in DOMAIN UpperLetters : UpperLetters[i] = c]]
LowerChar(c) == IF c \in DOMAIN LowerOf THEN LowerOf[c] ELSE c
Lower(s) == [i \in DOMAIN s |-> LowerChar(s[i])]

\* str.strip
Strip(s) ==
    LET keep == {i \in DOMAIN s : s[i] \notin Whitespace}
    IN  IF keep = {} THEN <<>>
        ELSE SubSeq(s, CHOOSE a \in keep : \A k \in keep : a <= k,
                       CHOOSE b \in keep : \A k \in keep : b >= k)

\* str.startswith, and the in of two strings
StartsWith(s, prefix) == Len(prefix) <= Len(s) /\ SubSeq(s, 1, Len(prefix)) = prefix
Contains(s, sub) == \E i \in 0..(Len(s) - Len(sub)) : SubSeq(s, i + 1, i + Len(sub)) = sub

\* A regular expression of issue_patterns is a sequence of atoms: a character
\* class, taken once ("1"), any number of times ("*"), or at least once ("+").
OneOf(set, q) == [k |-> "in", s |-> set, q |-> q]
NoneOf(set, q) == [k |-> "notin", s |-> set, q |-> q]
Space(q) == [k |-> "space", s |-> {}, q |-> q]
AnyChar(q) == [k |-> "any", s |-> {}, q |-> q]
Lit(text) == [i \in DOMAIN text |-> OneOf({text[i]}, "1")]

\* whether a character is in an atom's class, under re.IGNORECASE
AtomMatches(a, c) ==
    CASE a.k = "in" -> LowerChar(c) \in {LowerChar(x) : x \in a.s}
      [] a.k = "notin" -> LowerChar(c) \notin {LowerChar(x) : x \in a.s}
      [] a.k = "space" -> c \in Whitespace
      [] a.k = "any" -> c # "\n"

\* the positions a match can stand at after atom a, from the positions S
AfterAtom(a, line, S) ==
    IF a.q = "1"
    THEN {p + 1 : p \in {x \in S : x < Len(line) /\ AtomMatches(a, line[x + 1])}}
    ELSE {e \in 0..Len(line) :
            \E p \in S : /\ IF a.q = "+" THEN p < e ELSE p <= e
                         /\ \A i \in (p + 1)..e : AtomMatches(a, line[i])}

RECURSIVE AfterAtoms(_, _, _)
AfterAtoms(atoms, line, S) ==
    IF atoms = <<>> \/ S = {} THEN S
    ELSE AfterAtoms(Tail(atoms), line, AfterAtom(Head(atoms), line, S))

\* re.search(pattern, line, re.IGNORECASE) finds a match
Search(pattern, line) == AfterAtoms(pattern, line, 0..Len(line)) # {}

SecurityPatterns ==
    <<
       \* password\s*=\s*['\"][^'\"]+['\"]
       Lit(<<"p", "a", "s", "s", "w", "o", "r", "d">>) \o <<Space("*")>> \o Lit(<<"=">>)
           \o <<Space("*")>> \o <<OneOf({"'", "\""}, "1")>> \o <<NoneOf({"'", "\""}, "+")>>
           \o <<OneOf({"'", "\""}, "1")>>,
       \* api_key\s*=\s*['\"][^'\"]+['\"]
       Lit(<<"a", "p", "i", "_", "k", "e", "y">>) \o <<Space("*")>> \o Lit(<<"=">>)
           \o <<Space("*")>> \o <<OneOf({"'", "\""}, "1")>> \o <<NoneOf({"'", "\""}, "+")>>
           \o <<OneOf({"'", "\""}, "1")>>,
       \* secret\s*=\s*['\"][^'\"]+['\"]
       Lit(<<"s", "e", "c", "r", "e", "t">>) \o <<Space("*")>> \o Lit(<<"=">>)
           \o <<Space("*")>> \o <<OneOf({"'", "\""}, "1")>> \o <<NoneOf({"'", "\""}, "+")>>
           \o <<OneOf({"'", "\""}, "1")>>,
       \* eval\s*\(
       Lit(<<"e", "v", "a", "l">>) \o <<Space("*")>> \o Lit(<<"(">>),
       \* exec\s*\(
       Lit(<<"e", "x", "e", "c">>) \o <<Space("*")>> \o Lit(<<"(">>),
       \* os\.system\s*\(
       Lit(<<"o", "s", ".", "s", "y", "s", "t", "e", "m">>) \o <<Space("*")>>
           \o Lit(<<"(">>),
       \* subprocess\.call\s*\(
       Lit(<<"s", "u", "b", "p", "r", "o", "c", "e", "s", "s", ".", "c", "a", "l", "l">>)
           \o <<Space("*")>> \o Lit(<<"(">>)
    >>

CodeQualityPatterns ==
    <<
       \* TODO:
       Lit(<<"T", "O", "D", "O", ":">>),
       \* FIXME:
       Lit(<<"F", "I", "X", "M", "E", ":">>),
       \* XXX:
       Lit(<<"X", "X", "X", ":">>),
       \* HACK:
       Lit(<<"H", "A", "C", "K", ":">>),
       \* print\s*\(
       Lit(<<"p", "r", "i", "n", "t">>) \o <<Space("*")>> \o Lit(<<"(">>),
       \* debugger;
       Lit(<<"d", "e", "b", "u", "g", "g", "e", "r", ";">>),
       \* console\.log\s*\(
       Lit(<<"c", "o", "n", "s", "o", "l", "e", ".", "l", "o", "g">>) \o <<Space("*")>>
           \o Lit(<<"(">>)
    >>

PerformancePatterns ==
    <<
       \* for\s+.*\s+in\s+.*:\s*\n.*\s+for\s+.*\s+in\s+.*:
       Lit(<<"f", "o", "r">>) \o <<Space("+")>> \o <<AnyChar("*")>> \o <<Space("+")>>
           \o Lit(<<"i", "n">>) \o <<Space("+")>> \o <<AnyChar("*")>> \o Lit(<<":">>)
           \o <<Space("*")>> \o Lit(<<"\n">>) \o <<AnyChar("*")>> \o <<Space("+")>>
           \o Lit(<<"f", "o", "r">>) \o <<Space("+")>> \o <<AnyChar("*")>> \o <<Space("+")>>
           \o Lit(<<"i", "n">>) \o <<Space("+")>> \o <<AnyChar("*")>> \o Lit(<<":">>),
       \* while\s+True:
       Lit(<<"w", "h", "i", "l", "e">>) \o <<Space("+")>>
           \o Lit(<<"T", "r", "u", "e", ":">>),
       \* import\s+\*
       Lit(<<"i", "m", "p", "o", "r", "t">>) \o <<Space("+")>> \o Lit(<<"*">>)
    >>

\* for pattern in patterns: if re.search(...): ...; break
AnyPattern(patterns, line) == \E i \in DOMAIN patterns : Search(patterns[i], line)

TodoMarker == <<"T", "O", "D", "O", ":">>
FixmeMarker == <<"F", "I", "X", "M", "E", ":">>
ImportStar == <<"i", "m", "p", "o", "r", "t", " ", "*">>
PrintCall == <<"p", "r", "i", "n", "t", "(">>
ConsoleLogCall == <<"c", "o", "n", "s", "o", "l", "e", ".", "l", "o", "g", "(">>
DebuggerStatement == <<"d", "e", "b", "u", "g", "g", "e", "r", ";">>

\* str.split: the pieces of s between the separators, over s[lo..hi]
RECURSIVE SplitRange(_, _, _, _)
SplitRange(s, sep, lo, hi) ==
    IF lo > hi THEN << <<>> >>
    ELSE IF lo = hi THEN (IF s[lo] = sep THEN << <<>>, <<>> >> ELSE << <<s[lo]>> >>)
    ELSE Then(SplitRange(s, sep, lo, (lo + hi) \div 2), LAMBDA L :
         Then(SplitRange(s, sep, (lo + hi) \div 2 + 1, hi), LAMBDA R :
            SubSeq(L, 1, Len(L) - 1) \o << L[Len(L)] \o R[1] >> \o Tail(R)))

\* the same, dropping a last empty piece (what str.splitlines would give)
Split_splitlines(s, sep) ==
    Then(SplitRange(s, sep, 1, Len(s)), LAMBDA P :
        IF P[Len(P)] = <<>> THEN SubSeq(P, 1, Len(P) - 1) ELSE P)

Split(s, sep) == SplitRange(s, sep, 1, Len(s))

\* the concatenation of seqs[lo..hi]
RECURSIVE FlattenRange(_, _, _)
FlattenRange(seqs, lo, hi) ==
    IF lo > hi THEN <<>>
    ELSE IF lo = hi THEN seqs[lo]
    ELSE FlattenRange(seqs, lo, (lo + hi) \div 2) \o FlattenRange(seqs, (lo + hi) \div 2 + 1, hi)

\* filename.split('.')[-1].lower()
FileExt(filename) == Then(Split(filename, "."), LAMBDA pieces : Lower(pieces[Len(pieces)]))

PythonExts == {<<"p", "y">>, <<"p", "y", "x">>, <<"p", "y", "i">>}
JavascriptExts == {<<"j", "s">>, <<"j", "s", "x">>, <<"t", "s">>, <<"t", "s", "x">>}

\* a loop that passes over '#' comments and empty lines only
Skipped_hashOnly(line) ==
    LET line_lower == Strip(Lower(line))
    IN  StartsWith(line_lower, <<"#">>) \/ line_lower = <<>>

\* the lines the loop passes over
Skipped(line) ==
    LET line_lower == Strip(Lower(line))
    IN  \/ StartsWith(line_lower, <<"#">>)
        \/ StartsWith(line_lower, <<"/", "/">>)
        \/ StartsWith(line_lower, <<"/", "*">>)
        \/ line_lower = <<>>

CategoryIssue(type, severity, heading, found, filename, line_num, code) ==
    [type |-> type, severity |-> severity, title |-> <<heading, filename>>,
     description |-> <<found, line_num, ": ", code>>, line |-> line_num, code |-> code]

\* the category loops without their break: an issue for every pattern found
PerPattern(patterns, line, issue) ==
    FlattenRange([p \in DOMAIN patterns |->
                    IF Search(patterns[p], line) THEN <<issue>> ELSE <<>>],
                 1, Len(patterns))
LineIssues_noBreak(line, line_num, filename) ==
    IF Skipped(line) THEN <<>>
    ELSE
    PerPattern(SecurityPatterns, line,
               CategoryIssue("security", "high", "Security Issue in ",
                             "Potential security vulnerability found on line ",
                             filename, line_num, Strip(line)))
    \o
    PerPattern(CodeQualityPatterns, line,
               CategoryIssue("code_quality",
                             IF Contains(line, TodoMarker) \/ Contains(line, FixmeMarker)
                             THEN "low" ELSE "medium",
                             "Code Quality Issue in ", "Code quality issue found on line ",
                             filename, line_num, Strip(line)))
    \o
    PerPattern(PerformancePatterns, line,
               CategoryIssue("performance", "medium", "Performance Issue in ",
                             "Potential performance issue found on line ",
                             filename, line_num, Strip(line)))
    \o
    (IF FileExt(filename) \notin PythonExts /\ FileExt(filename) \in JavascriptExts
        /\ Contains(line, DebuggerStatement)
     THEN <<[type |-> "javascript", severity |-> "high",
             title |-> <<"Debugger statement in ", filename>>,
             description |-> <<"Debugger statement found on line ", line_num,
                               " should be removed from production code.">>,
             line |-> line_num, code |-> Strip(line)]>>
     ELSE <<>>)

\* what one turn of the loop appends to issues
LineIssues(line, line_num, filename) ==
    IF Skipped(line) THEN <<>>
    ELSE
    (IF AnyPattern(SecurityPatterns, line)
     THEN <<CategoryIssue("security", "high", "Security Issue in ",
                          "Potential security vulnerability found on line ",
                          filename, line_num, Strip(line))>>
     ELSE <<>>)
    \o
    (IF AnyPattern(CodeQualityPatterns, line)
     THEN <<CategoryIssue("code_quality",
                          IF Contains(line, TodoMarker) \/ Contains(line, FixmeMarker)
                          THEN "low" ELSE "medium",
                          "Code Quality Issue in ", "Code quality issue found on line ",
                          filename, line_num, Strip(line))>>
     ELSE <<>>)
    \o
    (IF AnyPattern(PerformancePatterns, line)
     THEN <<CategoryIssue("performance", "medium", "Performance Issue in ",
                          "Potential performance issue found on line ",
                          filename, line_num, Strip(line))>>
     ELSE <<>>)
    \o
    (IF FileExt(filename) \notin PythonExts /\ FileExt(filename) \in JavascriptExts
        /\ Contains(line, DebuggerStatement)
     THEN <<[type |-> "javascript", severity |-> "high",
             title |-> <<"Debugger statement in ", filename>>,
             description |-> <<"Debugger statement found on line ", line_num,
                               " should be removed from production code.">>,
             line |-> line_num, code |-> Strip(line)]>>
     ELSE <<>>)

LineSuggestion(type, heading, filename, before, line_num, after, code) ==
    [type |-> type, title |-> <<heading, filename>>,
     description |-> <<before, line_num, after>>, line |-> line_num, code |-> code]

\* what one turn of the loop appends to suggestions
LineSuggestions(line, line_num, filename) ==
    IF Skipped(line) THEN <<>>
    ELSE IF FileExt(filename) \in PythonExts
    THEN (IF Contains(line, ImportStar)
          THEN <<LineSuggestion("python", "Consider explicit imports in ", filename,
                                "Wildcard import on line ", line_num,
                                " should be replaced with explicit imports for better code clarity.",
                                Strip(line))>>
          ELSE <<>>)
         \o
         (IF Contains(line, PrintCall) /\ ~StartsWith(Strip(line), <<"#">>)
          THEN <<LineSuggestion("python", "Consider logging instead of print in ", filename,
                                "Print statement on line ", line_num,
                                " should be replaced with proper logging for production code.",
                                Strip(line))>>
          ELSE <<>>)
    ELSE IF FileExt(filename) \in JavascriptExts
            /\ Contains(line, ConsoleLogCall) /\ ~StartsWith(Strip(line), <<"/", "/">>)
    THEN <<LineSuggestion("javascript", "Consider proper logging in ", filename,
                          "Console.log statement on line ", line_num,
                          " should be replaced with proper logging for production code.",
                          Strip(line))>>
    ELSE <<>>

\* a file of more lines than this gets the file_size suggestion
LargeFileLines == 1000

FileSizeSuggestion(filename, n) ==
    [type |-> "file_size", title |-> <<"Large file detected: ", filename>>,
     description |-> <<"File ", filename, " has ", n,
                       " lines. Consider breaking it into smaller, more manageable files.">>,
     line |-> None, code |-> None]

analyze_file_content(text, filename) ==
    IF text = <<>> THEN [issues |-> <<>>, suggestions |-> <<>>]
    ELSE Then(Split(text, "\n"), LAMBDA lines :
        [issues |->
            FlattenRange([i \in DOMAIN lines |-> LineIssues(lines[i], i, filename)],
                         1, Len(lines)),
         suggestions |->
            FlattenRange([i \in DOMAIN lines |-> LineSuggestions(lines[i], i, filename)],
                         1, Len(lines))
            \o (IF Len(lines) > LargeFileLines
                THEN <<FileSizeSuggestion(filename, Len(lines))>> ELSE <<>>),
         total_lines |-> Len(lines)])

ScanIdle == scan_content = <<>> /\ scan_filename = <<>> /\ scan_result = Unset

\* one call of analyze_file_content
Scan ==
    /\ scan_result = Unset
    /\ \E r \in {analyze_file_content(scan_content, scan_filename)} : scan_result' = <<r>>
    /\ UNCHANGED <<scan_content, scan_filename, notScan>>

\* The files scanned: up to MaxLines lines of the samples, joined by newlines
\* and followed by up to MaxPad newlines; and files around LargeFileLines lines.
LinePlain == <<"x", " ", "=", " ", "1">>
LineBlank == <<>>
LineSpaces == <<" ", " ">>
LineHashTodo == <<"#", " ", "T", "O", "D", "O", ":", " ", "f", "i", "x", " ", "t", "h", "i", "s">>
LineSlashDebugger == <<" ", " ", "/", "/", " ", "d", "e", "b", "u", "g", "g", "e", "r", ";">>
LinePassword == <<"p", "a", "s", "s", "w", "o", "r", "d", " ", "=", " ", "\"", "x", "\"">>
LineTodo == <<"T", "O", "D", "O", ":", " ", "l", "a", "t", "e", "r">>
LineTodoLower == <<"t", "o", "d", "o", ":", " ", "l", "a", "t", "e", "r">>
LinePrintEval == <<"p", "r", "i", "n", "t", "(", "e", "v", "a", "l", "(", "s", ")", ")">>
LineWhileTrue == <<"w", "h", "i", "l", "e", " ", "T", "r", "u", "e", ":">>
LineImportStar == <<"f", "r", "o", "m", " ", "m", " ", "i", "m", "p", "o", "r", "t", " ", "*">>
LineDebugger == <<"d", "e", "b", "u", "g", "g", "e", "r", ";">>
LineConsoleLog == <<"c", "o", "n", "s", "o", "l", "e", ".", "l", "o", "g", "(", "1", ")">>
LineFor == <<"f", "o", "r", " ", "i", " ", "i", "n", " ", "a", ":">>
LineInnerFor == <<" ", " ", "f", "o", "r", " ", "j", " ", "i", "n", " ", "b", ":">>
LineExecEval == <<"e", "x", "e", "c", "(", "e", "v", "a", "l", "(", "s", ")", ")">>
LineEvalDebuggerTodo ==
    <<"e", "v", "a", "l", "(", "s", ")", ";", " ", "d", "e", "b", "u", "g", "g", "e", "r", ";",
      " ", "/", "/", " ", "T", "O", "D", "O", ":", " ", "x">>

SampleLines ==
    { LinePlain, LineBlank, LineSpaces, LineHashTodo, LineSlashDebugger, LinePassword,
      LineTodo, LineTodoLower, LinePrintEval, LineWhileTrue, LineImportStar, LineDebugger,
      LineConsoleLog, LineFor, LineInnerFor, LineExecEval, LineEvalDebuggerTodo }
LargeFileHeads == { LinePlain, LineTodo, LineBlank }

MaxLines == 2
MaxPad == 1

Newlines(n) == [i \in 1..n |-> "\n"]

RECURSIVE Join(_)
Join(lines) ==
    IF lines = <<>> THEN <<>>
    ELSE IF Len(lines) = 1 THEN lines[1]
    ELSE lines[1] \o <<"\n">> \o Join(Tail(lines))

ScanContents ==
    { Join(ls) \o Newlines(pad) : ls \in SeqsUpTo(SampleLines, MaxLines), pad \in 0..MaxPad }
    \cup { l \o Newlines(pad) : l \in LargeFileHeads,
                                pad \in (LargeFileLines - 2)..LargeFileLines }

FileNames ==
    { <<"a", "p", "p", ".", "p", "y">>, <<"l", "i", "b", ".", "J", "S">>,
      <<"n", "o", "t", "e", "s", ".", "t", "x", "t">>, <<"M", "a", "k", "e", "f", "i", "l", "e">> }

(***************************************************************************)
(* The counts of a result: CodeAnalyzer.get_analysis_summary               *)
(***************************************************************************)

\* d[key] = d.get(key, 0) + 1 on a dict of counts
Inc(d, key) ==
    [k \in DOMAIN d \cup {key} |-> IF k = key THEN Get(d, key, 0) + 1 ELSE d[k]]

\* a count that takes the severities it starts with and no other
SeverityCount_knownOnly(d, severity) == IF severity \in DOMAIN d THEN Inc(d, severity) ELSE d

\* issue_severities[severity] = issue_severities.get(severity, 0) + 1
SeverityCount(d, severity) == Inc(d, severity)

\* the loops over issues and suggestions
RECURSIVE CountTypes(_, _)
CountTypes(items, d) ==
    IF items = <<>> THEN d
    ELSE CountTypes(Tail(items), Inc(d, Get(Head(items), "type", "unknown")))

RECURSIVE CountSeverities(_, _)
CountSeverities(issues, d) ==
    IF issues = <<>> THEN d
    ELSE CountSeverities(Tail(issues),
                         SeverityCount(d, Get(Head(issues), "severity", "medium")))

get_analysis_summary(analysis) ==
    LET issues == Get(analysis, "issues", <<>>)
        suggestions == Get(analysis, "suggestions", <<>>)
    IN  [total_issues |-> Len(issues),
         total_suggestions |-> Len(suggestions),
         issue_types |-> CountTypes(issues, EmptyDict),
         issue_severities |-> CountSeverities(issues, [high |-> 0, medium |-> 0, low |-> 0]),
         suggestion_types |-> CountTypes(suggestions, EmptyDict),
         analyzed_files |-> Get(analysis, "analyzed_files", 0),
         total_files_found |-> Get(analysis, "total_files_found", 0)]

SummaryIdle == summary_analysis = <<>> /\ summary = Unset

\* one call of get_analysis_summary
Summarise ==
    /\ summary = Unset
    /\ \E r \in {get_analysis_summary(summary_analysis)} : summary' = <<r>>
    /\ UNCHANGED <<summary_analysis, notSummary>>

\* The analyses summarised: issues and suggestions with and without a type
\* and a severity, with the keys of analyze_repository_files or with none.
SummaryIssueSamples ==
    { [type |-> "security", severity |-> "high"],
      [type |-> "security", severity |-> "critical"],
      [type |-> "code_quality", severity |-> "low"],
      [type |-> "javascript"],
      [severity |-> "medium"],
      EmptyDict }
SummarySuggestionSamples == { [type |-> "python"], [type |-> "file_size"], EmptyDict }

MaxSummaryIssues == 2
MaxSummarySuggestions == 2

SummaryAnalyses ==
    { [issues |-> is, suggestions |-> ss, analyzed_files |-> 1, total_files_found |-> 2] :
        is \in SeqsUpTo(SummaryIssueSamples, MaxSummaryIssues),
        ss \in SeqsUpTo(SummarySuggestionSamples, MaxSummarySuggestions) }
    \cup { EmptyDict, [issues |-> <<[severity |-> "critical"]>>] }

(***************************************************************************)
(* The entry points: the analyze_repository tool of mcp_server.py and      *)
(* run_full_mcp_workflow                                                   *)
(***************************************************************************)

Tool == "analyze_repository"
Workflow == "run_full_mcp_workflow"

\* What an entry point returns: the text of the tool's CallToolResult, the
\* boolean of the workflow.
Text(head, detail) == [head |-> head, detail |-> detail]
WorkflowReturns(b) == [head |-> "return", detail |-> IF b THEN "True" ELSE "False"]

\* An exception caught by the entry point's outer except
Caught(e, message) ==
    IF e = Tool THEN Text("Error analyzing repository: ", message) ELSE WorkflowReturns(FALSE)

\* the module binds no name code_analysis; the summary's f-string reads it
CodeAnalysisDefined == FALSE

toolInputs == <<entry, github_analyzer, trello_manager, repo_url, repo_found,
                create_trello_tasks, recent_issues>>

\* the entry point returns p
ToolReturn(p) ==
    /\ payload' = <<p>>
    /\ toolPc' = "done"
    /\ UNCHANGED <<toolInputs, combined_analysis, analysis_cards, issue_cards, trello_results>>

\* a TrelloManager operation is called
StartBatch(op, items) ==
    /\ batchOp' = op
    /\ batchItems' = items
    /\ batchPos' = 1
    /\ batchPc' = "running"
    /\ created_cards' = <<>>
    /\ card_calls' = <<>>
    /\ UNCHANGED <<managerVars, faultsLeft>>

ToolNoToken ==
    /\ UNCHANGED <<scanVars, summaryVars, listVars, callVars, filesVars>>
    /\ toolPc = "start"
    /\ ~github_analyzer
    /\ ToolReturn(IF entry = Tool
                  THEN Text("GitHub token not configured. Please set GITHUB_TOKEN environment variable.", "")
                  ELSE WorkflowReturns(FALSE))
    /\ UNCHANGED <<auditVars, aiVars, boardVars>>

\* the workflow needs the Trello credentials
ToolNoTrello ==
    /\ UNCHANGED <<scanVars, summaryVars, listVars, callVars, filesVars>>
    /\ toolPc = "start"
    /\ entry = Workflow
    /\ github_analyzer
    /\ ~trello_manager
    /\ ToolReturn(WorkflowReturns(FALSE))
    /\ UNCHANGED <<auditVars, aiVars, boardVars>>

ToolNoUrl ==
    /\ UNCHANGED <<scanVars, summaryVars, listVars, callVars, filesVars>>
    /\ toolPc = "start"
    /\ entry = Tool
    /\ github_analyzer
    /\ repo_url = None
    /\ ToolReturn(Text("Repository URL is required.", ""))
    /\ UNCHANGED <<auditVars, aiVars, boardVars>>

ToolNoRepo ==
    /\ UNCHANGED <<scanVars, summaryVars, listVars, callVars, filesVars>>
    /\ toolPc = "start"
    /\ github_analyzer
    /\ entry = Workflow => trello_manager
    /\ repo_url # None
    /\ ~repo_found
    /\ ToolReturn(IF entry = Tool
                  THEN Text("Could not access repository: ", repo_url)
                  ELSE WorkflowReturns(FALSE))
    /\ UNCHANGED <<auditVars, aiVars, boardVars>>

\* the repository is there: its information, its structure, the audit, the
\* sample files, and the call of analyze_repository_with_ai
ToolAudit ==
    /\ UNCHANGED <<scanVars, summaryVars, listVars, callVars, filesVars>>
    /\ toolPc = "start"
    /\ github_analyzer
    /\ entry = Workflow => trello_manager
    /\ repo_url # None
    /\ repo_found
    /\ code_quality' = <<analyze_code_quality(repo)>>
    /\ aiPc' = "start"
    /\ toolPc' = "ai"
    /\ UNCHANGED <<repo, openai_client, anthropic_client, sample_files, aiCalls, ai_analysis,
                   boardVars, toolInputs, combined_analysis, analysis_cards, issue_cards,
                   trello_results, payload>>

\* combined_analysis of the tool
ToolCombined(cq, ai) ==
    [issues |-> Get(cq, "issues", <<>>) \o ai.issues,
     suggestions |-> Get(cq, "suggestions", <<>>) \o ai.suggestions,
     score |-> (Get(cq, "score", 100) + ai.code_quality_score) \div 2]

\* combined_analysis of the workflow before the AI call
WorkflowBasic(cq) ==
    [issues |-> Get(cq, "issues", <<>>),
     suggestions |-> Get(cq, "suggestions", <<>>),
     score |-> Get(cq, "score", 70)]

\* combined_analysis of the workflow once the AI call has returned
WorkflowCombined(cq, ai) ==
    [issues |-> ai.issues,
     suggestions |-> ai.suggestions,
     score |-> (ai.code_quality_score + ai.security_score + ai.maintainability_score) \div 3]

\* the Trello step begins with combined analysis c, or is skipped
TrelloStep(c) ==
    IF entry = Workflow \/ (create_trello_tasks /\ trello_manager)
    THEN /\ StartBatch("create_analysis_cards", AnalysisItems(c))
         /\ toolPc' = "analysis_cards"
         /\ UNCHANGED trello_results
    ELSE /\ trello_results' = IF create_trello_tasks
                              THEN <<[error |-> "Trello credentials not configured"]>>
                              ELSE <<EmptyDict>>
         /\ toolPc' = "summary"
         /\ UNCHANGED boardVars

\* analyze_repository_with_ai has returned
ToolCombine ==
    /\ UNCHANGED <<scanVars, summaryVars, listVars, callVars, filesVars>>
    /\ toolPc = "ai"
    /\ aiPc = "done"
    /\ \E c \in {IF entry = Tool THEN ToolCombined(code_quality[1], ai_analysis[1])
                 ELSE WorkflowCombined(code_quality[1], ai_analysis[1])} :
        /\ combined_analysis' = <<c>>
        /\ TrelloStep(c)
    /\ UNCHANGED <<auditVars, aiVars, toolInputs, analysis_cards, issue_cards, payload>>

\* analyze_repository_with_ai has raised: the tool's outer except returns the
\* error text; the workflow's inner except goes on with the structural result
ToolAiRaised ==
    /\ UNCHANGED <<scanVars, summaryVars, listVars, callVars, filesVars>>
    /\ toolPc = "ai"
    /\ aiPc = "raised"
    /\ IF entry = Tool
       THEN /\ ToolReturn(Caught(Tool, "'utf-8' codec can't decode byte"))
            /\ UNCHANGED boardVars
       ELSE /\ \E c \in {WorkflowBasic(code_quality[1])} :
                /\ combined_analysis' = <<c>>
                /\ TrelloStep(c)
            /\ UNCHANGED <<toolInputs, analysis_cards, issue_cards, payload>>
    /\ UNCHANGED <<auditVars, aiVars>>

\* create_analysis_cards has returned: create_issue_cards is called
ToolIssueCards ==
    /\ UNCHANGED <<scanVars, summaryVars, listVars, callVars, filesVars>>
    /\ toolPc = "analysis_cards"
    /\ batchPc = "returned"
    /\ analysis_cards' = <<created_cards>>
    /\ StartBatch("create_issue_cards", Tag("github_issue", recent_issues))
    /\ toolPc' = "issue_cards"
    /\ UNCHANGED <<auditVars, aiVars, toolInputs, combined_analysis, issue_cards,
                   trello_results, payload>>

\* a summary card that counts the items handed over, not the cards created
ToolSummaryCard_countsItems ==
    /\ UNCHANGED <<scanVars, summaryVars, listVars, callVars, filesVars>>
    /\ toolPc = "issue_cards"
    /\ batchPc = "returned"
    /\ issue_cards' = <<created_cards>>
    /\ StartBatch("create_summary_card",
                  <<[kind |-> "summary",
                     item |-> [repo_info |-> RepoInfo, analysis |-> combined_analysis[1],
                               total_cards_created |->
                                   Len(AnalysisItems(combined_analysis[1])) + Len(recent_issues)]]>>)
    /\ toolPc' = "summary_card"
    /\ UNCHANGED <<auditVars, aiVars, toolInputs, combined_analysis, analysis_cards,
                   trello_results, payload>>

\* create_issue_cards has returned: create_summary_card is called
ToolSummaryCard ==
    /\ UNCHANGED <<scanVars, summaryVars, listVars, callVars, filesVars>>
    /\ toolPc = "issue_cards"
    /\ batchPc = "returned"
    /\ issue_cards' = <<created_cards>>
    /\ StartBatch("create_summary_card",
                  <<[kind |-> "summary",
                     item |-> [repo_info |-> RepoInfo, analysis |-> combined_analysis[1],
                               total_cards_created |-> Len(analysis_cards[1]) + Len(created_cards)]]>>)
    /\ toolPc' = "summary_card"
    /\ UNCHANGED <<auditVars, aiVars, toolInputs, combined_analysis, analysis_cards,
                   trello_results, payload>>

\* create_summary_card has returned: trello_results
ToolTrelloResults ==
    /\ UNCHANGED <<scanVars, summaryVars, listVars, callVars, filesVars>>
    /\ toolPc = "summary_card"
    /\ batchPc = "returned"
    /\ LET total_cards == Len(analysis_cards[1]) + Len(issue_cards[1])
           summary_card == created_cards
       IN  trello_results' =
               <<[analysis_cards_created |-> Len(analysis_cards[1]),
                  issue_cards_created |-> Len(issue_cards[1]),
                  summary_card_created |-> summary_card # NoCard,
                  total_cards_created |-> total_cards + (IF summary_card # NoCard THEN 1 ELSE 0)]>>
    /\ toolPc' = "summary"
    /\ UNCHANGED <<auditVars, aiVars, boardVars, toolInputs, combined_analysis,
                   analysis_cards, issue_cards, payload>>

\* an exception left a TrelloManager operation
ToolBatchRaised ==
    /\ UNCHANGED <<scanVars, summaryVars, listVars, callVars, filesVars>>
    /\ toolPc \in {"analysis_cards", "issue_cards", "summary_card"}
    /\ batchPc = "raised"
    /\ ToolReturn(Caught(entry, "Connection aborted."))
    /\ UNCHANGED <<auditVars, aiVars, boardVars>>

\* the summary text of the tool, the final report of the workflow
ToolSummary ==
    /\ UNCHANGED <<scanVars, summaryVars, listVars, callVars, filesVars>>
    /\ toolPc = "summary"
    /\ ToolReturn(IF entry = Workflow THEN WorkflowReturns(TRUE)
                  ELSE IF ~CodeAnalysisDefined
                  THEN Caught(Tool, "name 'code_analysis' is not defined")
                  ELSE [head |-> "# Repository Analysis Results",
                        detail |-> [score |-> Get(combined_analysis[1], "score", 0),
                                    issues |-> Len(Get(combined_analysis[1], "issues", <<>>)),
                                    suggestions |-> Len(Get(combined_analysis[1], "suggestions", <<>>)),
                                    trello |-> trello_results[1]]])
    /\ UNCHANGED <<auditVars, aiVars, boardVars>>

ToolIdle ==
    /\ entry = "none"
    /\ toolPc = "idle"
    /\ github_analyzer = FALSE
    /\ trello_manager = FALSE
    /\ repo_url = None
    /\ repo_found = FALSE
    /\ create_trello_tasks = FALSE
    /\ recent_issues = <<>>
    /\ combined_analysis = Unset
    /\ analysis_cards = Unset
    /\ issue_cards = Unset
    /\ trello_results = Unset
    /\ payload = Unset

\* The runs of the entry points.
ToolRepos ==
    { [p \in AuditPaths |-> "absent"],
      [p \in AuditPaths |-> IF p \in {ReadmePath, LicenseFiles[1]} THEN "file" ELSE "absent"],
      [p \in AuditPaths |-> IF p \in DirPaths THEN "dir" ELSE "file"] }
ToolSampleFiles == { <<"text">>, <<"text", "binary">> }
ToolRecentIssues ==
    { <<>>, <<[number |-> "7", title |-> "Crash on start", labels |-> <<"bug">>]>> }

(***************************************************************************)
(* The list_repositories tool of mcp_server.py and                         *)
(* GitHubAnalyzer.list_repositories                                        *)
(***************************************************************************)

\* What the code host answers: the user's repositories, a GithubException
\* (unknown user, rate limit), or an exception of another class (the
\* connection fails).
RemoteRepos(repos) == [kind |-> "repos", repos |-> repos]
GithubError == [kind |-> "github_error"]
OtherError == [kind |-> "other_error"]

\* GitHubAnalyzer.list_repositories: GithubException is caught and answered
\* by a one-entry list; any other exception leaves the method.
repositories_of(remote) ==
    CASE remote.kind = "repos" -> [raised |-> FALSE, ret |-> remote.repos]
      [] remote.kind = "github_error" ->
            [raised |-> FALSE, ret |-> <<[error |-> "Could not fetch repositories: "]>>]
      [] remote.kind = "other_error" -> [raised |-> TRUE]

\* the tool shows this many repositories
ListingCap == 20

\* one "## name" entry of the listing
ListingEntry(r) ==
    [name |-> Get(r, "name", "Unknown"),
     full_name |-> Get(r, "full_name", "Unknown"),
     description |-> Get(r, "description", "No description"),
     language |-> Get(r, "language", "Unknown"),
     stars |-> Get(r, "stars", 0),
     forks |-> Get(r, "forks", 0),
     url |-> Get(r, "url", "N/A"),
     private |-> Get(r, "private", FALSE),
     updated_at |-> Get(r, "updated_at", "Unknown")]

\* the listing the tool formats
Listing(username, repos) ==
    [head |-> "# Repositories for ", username |-> username,
     entries |-> [i \in DOMAIN Slice(repos, 0, ListingCap) |-> ListingEntry(repos[i])],
     more |-> IF Len(repos) > ListingCap THEN Len(repos) - ListingCap ELSE 0]

ListIdle ==
    /\ list_github = FALSE
    /\ list_username = None
    /\ list_remote = RemoteRepos(<<>>)
    /\ list_payload = Unset

ListReturn(p) == list_payload' = <<p>> /\ UNCHANGED <<list_github, list_username, list_remote, notList>>

ListNoToken ==
    /\ list_payload = Unset
    /\ ~list_github
    /\ ListReturn(Text("GitHub token not configured. Please set GITHUB_TOKEN environment variable.", ""))

ListNoUsername ==
    /\ list_payload = Unset
    /\ list_github
    /\ list_username \in {None, ""}
    /\ ListReturn(Text("Username is required.", ""))

\* github_analyzer.list_repositories raises: the tool's except
ListRaised ==
    /\ list_payload = Unset
    /\ list_github
    /\ list_username \notin {None, ""}
    /\ repositories_of(list_remote).raised
    /\ ListReturn(Text("Error listing repositories: ", "exception"))

ListEmpty ==
    /\ list_payload = Unset
    /\ list_github
    /\ list_username \notin {None, ""}
    /\ ~repositories_of(list_remote).raised
    /\ repositories_of(list_remote).ret = <<>>
    /\ ListReturn(Text("No repositories found for user: ", list_username))

ListFormat ==
    /\ list_payload = Unset
    /\ list_github
    /\ list_username \notin {None, ""}
    /\ ~repositories_of(list_remote).raised
    /\ repositories_of(list_remote).ret # <<>>
    /\ ListReturn(Listing(list_username, repositories_of(list_remote).ret))

\* The users' repositories: a public one, a private one without description
\* and language; up to MaxRepos of them, and lists around the cap.
RepoSamples ==
    { [name |-> "demo", full_name |-> "octo/demo", description |-> "A demo",
       language |-> "Python", stars |-> 3, forks |-> 1,
       url |-> "https://github.com/octo/demo", private |-> FALSE,
       updated_at |-> "2024-01-01T00:00:00"],
      [name |-> "vault", full_name |-> "octo/vault", description |-> None,
       language |-> None, stars |-> 0, forks |-> 0,
       url |-> "https://github.com/octo/vault", private |-> TRUE,
       updated_at |-> "2024-02-02T00:00:00"] }

MaxRepos == 3

ListRemotes ==
    { RemoteRepos(rs) : rs \in SeqsUpTo(RepoSamples, MaxRepos) }
    \cup { RemoteRepos([i \in 1..n |-> r]) :
                r \in RepoSamples, n \in (ListingCap - 1)..(ListingCap + 1) }
    \cup { GithubError, OtherError }

ListUsernames == { None, "", "octo" }

(***************************************************************************)
(* One CodeAnalyzer called repeatedly (src/code_analyzer.py)               *)
(***************************************************************************)

\* CodeAnalyzer.__init__: the rule catalog
issue_patterns ==
    [security |-> SecurityPatterns, code_quality |-> CodeQualityPatterns,
     performance |-> PerformancePatterns]

CallsIdle == analyzer_patterns = <<>> /\ analyzer_calls = <<>>

\* the files handed to the analyzer, and how many calls are followed
CallContents ==
    { LinePassword, LineDebugger, Join(<<LineTodo, LinePrintEval>>), LinePlain, <<>> }
CallNames == { <<"a", "p", "p", ".", "p", "y">>, <<"l", "i", "b", ".", "J", "S">> }
MaxCalls == 3

CallRecord(content, filename, result) ==
    [content |-> content, filename |-> filename, result |-> result]

\* the issues of the calls made so far, in order
RECURSIVE IssuesSoFar(_)
IssuesSoFar(calls) ==
    IF calls = <<>> THEN <<>>
    ELSE IssuesSoFar(SubSeq(calls, 1, Len(calls) - 1))
         \o Get(calls[Len(calls)].result, "issues", <<>>)

\* an analyzer that keeps its issues list from one call to the next
AnalyzeCall_keepsIssues ==
    /\ Len(analyzer_calls) < MaxCalls
    /\ \E content \in CallContents, filename \in CallNames :
         \E r \in {analyze_file_content(content, filename)} :
            analyzer_calls' = Append(analyzer_calls,
                CallRecord(content, filename,
                           [r EXCEPT !.issues = IssuesSoFar(analyzer_calls) \o @]))
    /\ UNCHANGED <<analyzer_patterns, notCalls>>

\* one more call of analyze_file_content on the same analyzer: issues and
\* suggestions are locals of the call, self.issue_patterns is only read
AnalyzeCall ==
    /\ Len(analyzer_calls) < MaxCalls
    /\ \E content \in CallContents, filename \in CallNames :
         \E r \in {analyze_file_content(content, filename)} :
            analyzer_calls' = Append(analyzer_calls, CallRecord(content, filename, r))
    /\ UNCHANGED <<analyzer_patterns, notCalls>>

(***************************************************************************)
(* CodeAnalyzer.analyze_repository_files (src/code_analyzer.py)            *)
(***************************************************************************)

FilesIdle == files_repo = <<>> /\ files_max = 0 /\ files_result = Unset

EndsWith(s, suffix) ==
    Len(suffix) <= Len(s) /\ SubSeq(s, Len(s) - Len(suffix) + 1, Len(s)) = suffix

\* the extensions of the files that are analysed
AnalyzedExts ==
    << <<".", "p", "y">>, <<".", "j", "s">>, <<".", "j", "s", "x">>, <<".", "t", "s">>,
       <<".", "t", "s", "x">>, <<".", "j", "a", "v", "a">>, <<".", "c", "p", "p">>,
       <<".", "c">>, <<".", "h">>, <<".", "c", "s">> >>

\* any(filename.endswith(ext) for ext in [...]) with filename = content.name.lower()
IsAnalyzedName(name) ==
    \E k \in DOMAIN AnalyzedExts : EndsWith(Lower(name), AnalyzedExts[k])

\* An entry of a listing: a file (readable: decoded_content decodes as UTF-8),
\* a directory (listed: get_contents(path) answers), or something else.
Entry(type, name, readable, text, listed, entries) ==
    [type |-> type, name |-> name, readable |-> readable, text |-> text,
     listed |-> listed, entries |-> entries]

\* collect_files: the files to analyse, depth first in listing order; a
\* directory whose listing fails is passed over
RECURSIVE collect_files(_)
collect_files(contents_list) ==
    FlattenRange(
        [i \in DOMAIN contents_list |->
            LET content == contents_list[i]
            IN  IF content.type = "dir"
                THEN (IF content.listed THEN collect_files(content.entries) ELSE <<>>)
                ELSE IF content.type = "file" /\ IsAnalyzedName(content.name)
                THEN <<content>>
                ELSE <<>>],
        1, Len(contents_list))

FilesResult(issues, suggestions, analyzed_files, total_files_found) ==
    [issues |-> issues, suggestions |-> suggestions, analyzed_files |-> analyzed_files,
     total_files_found |-> total_files_found]

\* a loop over the files that a file it cannot read ends
RECURSIVE AnalyzeEach_stopsAtUnreadable(_, _, _)
AnalyzeEach_stopsAtUnreadable(files, k, acc) ==
    IF k > Len(files) \/ ~files[k].readable THEN acc
    ELSE Then(analyze_file_content(files[k].text, files[k].name), LAMBDA analysis :
            AnalyzeEach_stopsAtUnreadable(files, k + 1,
                FilesResult(acc.issues \o analysis.issues,
                            acc.suggestions \o analysis.suggestions,
                            acc.analyzed_files + 1, acc.total_files_found)))

\* the loop over files_to_analyze, from the k-th file on: a file that cannot
\* be read or decoded is passed over
RECURSIVE AnalyzeEach(_, _, _)
AnalyzeEach(files, k, acc) ==
    IF k > Len(files) THEN acc
    ELSE IF ~files[k].readable THEN AnalyzeEach(files, k + 1, acc)
    ELSE Then(analyze_file_content(files[k].text, files[k].name), LAMBDA analysis :
            AnalyzeEach(files, k + 1,
                FilesResult(acc.issues \o analysis.issues,
                            acc.suggestions \o analysis.suggestions,
                            acc.analyzed_files + 1, acc.total_files_found)))

\* analyze_repository_files when the root listing is answered
analyze_repository_files(contents, max_files) ==
    Then(Slice(collect_files(contents), 0, max_files), LAMBDA files_to_analyze :
        AnalyzeEach(files_to_analyze, 1, FilesResult(<<>>, <<>>, 0, Len(files_to_analyze))))

AnalyzeFiles ==
    /\ files_result = Unset
    /\ files_repo.ok
    /\ \E r \in {analyze_repository_files(files_repo.entries, files_max)} :
          files_result' = <<r>>
    /\ UNCHANGED <<files_repo, files_max, notFiles>>

\* repo.get_contents("") raises: the outer except
AnalyzeFilesRaised ==
    /\ files_result = Unset
    /\ ~files_repo.ok
    /\ files_result' = <<[issues |-> <<>>, suggestions |-> <<>>, analyzed_files |-> 0,
                          total_files_found |-> 0, error |-> "str(e)"]>>
    /\ UNCHANGED <<files_repo, files_max, notFiles>>

\* The repositories analysed: listings of up to MaxEntries of these entries.
NoEntries == <<>>
FilePy == Entry("file", <<"a", "p", "p", ".", "p", "y">>, TRUE, LinePassword, FALSE, NoEntries)
FileJs == Entry("file", <<"l", "i", "b", ".", "J", "S">>, TRUE, LineDebugger, FALSE, NoEntries)
FileUnreadable ==
    Entry("file", <<"b", "i", "n", ".", "p", "y">>, FALSE, <<>>, FALSE, NoEntries)
FileTxt ==
    Entry("file", <<"n", "o", "t", "e", "s", ".", "t", "x", "t">>, TRUE, LineTodo, FALSE,
          NoEntries)
Symlink == Entry("symlink", <<"l", "n", ".", "p", "y">>, TRUE, LinePassword, FALSE, NoEntries)
DirSrc == Entry("dir", <<"s", "r", "c">>, FALSE, <<>>, TRUE, <<FileUnreadable, FileJs>>)
DirUnlisted == Entry("dir", <<"v", "e", "n", "d", "o", "r">>, FALSE, <<>>, FALSE, NoEntries)
Entries == { FilePy, FileJs, FileUnreadable, FileTxt, Symlink, DirSrc, DirUnlisted }
MaxEntries == 3
DefaultMaxFiles == 50
FileLimits == { 1, 2, DefaultMaxFiles }

(***************************************************************************)
(* Specifications                                                          *)
(***************************************************************************)

InitAudit ==
    repo \in Repos /\ code_quality = Unset /\ AiIdle /\ BoardIdle /\ ToolIdle /\ ScanIdle /\ SummaryIdle /\ ListIdle /\ CallsIdle /\ FilesIdle

NextAudit == Audit

SpecAudit == InitAudit /\ [][NextAudit]_vars

InitAI ==
    /\ AuditIdle
    /\ BoardIdle
    /\ ToolIdle
    /\ ScanIdle
    /\ SummaryIdle /\ ListIdle /\ CallsIdle /\ FilesIdle
    /\ openai_client \in BOOLEAN
    /\ anthropic_client \in BOOLEAN
    /\ sample_files \in SeqsUpTo(SampleKinds, MaxSampleFiles)
    /\ aiPc = "start"
    /\ aiCalls = <<>>
    /\ ai_analysis = Unset

NextAI ==
    \/ AiSampleRaises
    \/ AiCallOpenAI
    \/ AiCallAnthropic
    \/ AiNoProvider
    \/ OpenAIReturns
    \/ AnthropicReturns

SpecAI == InitAI /\ [][NextAI]_vars

InitBoard ==
    AuditIdle /\ AiIdle /\ ToolIdle /\ ScanIdle /\ SummaryIdle /\ ListIdle /\ CallsIdle /\ FilesIdle /\ ManagerInit /\ BatchInit

NextBoard ==
    \/ CreateCardStep
    \/ BatchReturn

SpecBoard == InitBoard /\ [][NextBoard]_vars

\* Both entry points, on a board that has the lists or has none; a collaborator
\* call may fail in the runs without an AI provider.
InitTool ==
    /\ ScanIdle
    /\ SummaryIdle /\ ListIdle /\ CallsIdle /\ FilesIdle
    /\ entry \in {Tool, Workflow}
    /\ toolPc = "start"
    /\ github_analyzer \in BOOLEAN
    /\ trello_manager \in BOOLEAN
    /\ repo_url \in IF entry = Tool THEN {None, RepoName} ELSE {RepoName}
    /\ repo_found \in BOOLEAN
    /\ create_trello_tasks \in IF entry = Tool THEN BOOLEAN ELSE {TRUE}
    /\ recent_issues \in ToolRecentIssues
    /\ combined_analysis = Unset
    /\ analysis_cards = Unset
    /\ issue_cards = Unset
    /\ trello_results = Unset
    /\ payload = Unset
    /\ repo \in ToolRepos
    /\ code_quality = Unset
    /\ openai_client \in BOOLEAN
    /\ anthropic_client \in BOOLEAN
    /\ sample_files \in ToolSampleFiles
    /\ aiPc = "idle"
    /\ aiCalls = <<>>
    /\ ai_analysis = Unset
    /\ board \in IF trello_manager THEN BOOLEAN ELSE {FALSE}
    /\ lists_cache = Unset
    /\ labels_cache = Unset
    /\ boardLists \in {l \in BoardListChoices : Len(l) # 2}
    /\ boardLabels = <<>>
    /\ boardCards = <<>>
    /\ batchOp = "none"
    /\ batchItems = <<>>
    /\ batchPos = 1
    /\ batchPc = "idle"
    /\ created_cards = <<>>
    /\ card_calls = <<>>
    /\ faultsLeft \in IF ~openai_client /\ ~anthropic_client THEN {0, MaxFaults} ELSE {0}

NextTool ==
    \/ ToolNoToken
    \/ ToolNoTrello
    \/ ToolNoUrl
    \/ ToolNoRepo
    \/ ToolAudit
    \/ AiSampleRaises
    \/ AiCallOpenAI
    \/ AiCallAnthropic
    \/ AiNoProvider
    \/ OpenAIReturns
    \/ AnthropicReturns
    \/ ToolCombine
    \/ ToolAiRaised
    \/ CreateCardStep
    \/ BatchReturn
    \/ ToolIssueCards
    \/ ToolSummaryCard
    \/ ToolTrelloResults
    \/ ToolBatchRaised
    \/ ToolSummary

SpecTool == InitTool /\ [][NextTool]_vars

InitScan ==
    /\ AuditIdle
    /\ AiIdle
    /\ BoardIdle
    /\ ToolIdle
    /\ scan_content \in ScanContents
    /\ scan_filename \in FileNames
    /\ scan_result = Unset
    /\ SummaryIdle /\ ListIdle /\ CallsIdle /\ FilesIdle

NextScan == Scan

SpecScan == InitScan /\ [][NextScan]_vars

InitSummary ==
    /\ AuditIdle
    /\ AiIdle
    /\ BoardIdle
    /\ ToolIdle
    /\ ScanIdle
    /\ ListIdle /\ CallsIdle /\ FilesIdle
    /\ summary_analysis \in SummaryAnalyses
    /\ summary = Unset

NextSummary == Summarise

SpecSummary == InitSummary /\ [][NextSummary]_vars

InitList ==
    /\ AuditIdle
    /\ AiIdle
    /\ BoardIdle
    /\ ToolIdle
    /\ ScanIdle
    /\ SummaryIdle /\ CallsIdle /\ FilesIdle
    /\ list_github \in BOOLEAN
    /\ list_username \in ListUsernames
    /\ list_remote \in ListRemotes
    /\ list_payload = Unset

NextList ==
    \/ ListNoToken
    \/ ListNoUsername
    \/ ListRaised
    \/ ListEmpty
    \/ ListFormat

SpecList == InitList /\ [][NextList]_vars

InitCalls ==
    /\ AuditIdle
    /\ AiIdle
    /\ BoardIdle
    /\ ToolIdle
    /\ ScanIdle
    /\ SummaryIdle /\ ListIdle /\ FilesIdle
    /\ analyzer_patterns = issue_patterns
    /\ analyzer_calls = <<>>

NextCalls == AnalyzeCall

SpecCalls == InitCalls /\ [][NextCalls]_vars

InitFiles ==
    /\ AuditIdle
    /\ AiIdle
    /\ BoardIdle
    /\ ToolIdle
    /\ ScanIdle
    /\ SummaryIdle /\ ListIdle /\ CallsIdle
    /\ files_repo \in { [ok |-> FALSE, entries |-> NoEntries] }
                      \cup { [ok |-> TRUE, entries |-> es] : es \in SeqsUpTo(Entries, MaxEntries) }
    /\ files_max \in FileLimits
    /\ files_result = Unset

NextFiles ==
    \/ AnalyzeFiles
    \/ AnalyzeFilesRaised

SpecFiles == InitFiles /\ [][NextFiles]_vars


(***************************************************************************)
(* Properties of the structural audit (SpecAudit)                          *)
(***************************************************************************)

Audited == code_quality # Unset
IssueTitles(a) == {a.issues[i].title : i \in DOMAIN a.issues}
CountTitle(a, t) == Cardinality({i \in DOMAIN a.issues : a.issues[i].title = t})
SeverityOf(a, t) == {a.issues[i].severity : i \in {j \in DOMAIN a.issues : a.issues[j].title = t}}
AllAbsent(r, paths) == \A p \in paths : r[p] = "absent"
Exists(r, paths) == \E p \in paths : r[p] # "absent"
TestPaths == {TestDirPath(d) : d \in Range(TestDirs)}

\* The deduction table as the specification states it.
TableTitles == {"Missing README.md", "Missing License", "Missing Dependencies File", "Missing Tests"}
TableDeduction(t) == CASE t = "Missing README.md" -> 10
                       [] t = "Missing License" -> 5
                       [] t = "Missing Dependencies File" -> 15
                       [] t = "Missing Tests" -> 10
TableSeverity(t) == IF t = "Missing Dependencies File" THEN "high" ELSE "medium"
TableSum(titles) ==
    (IF "Missing README.md" \in titles THEN TableDeduction("Missing README.md") ELSE 0)
    + (IF "Missing License" \in titles THEN TableDeduction("Missing License") ELSE 0)
    + (IF "Missing Dependencies File" \in titles THEN TableDeduction("Missing Dependencies File") ELSE 0)
    + (IF "Missing Tests" \in titles THEN TableDeduction("Missing Tests") ELSE 0)

C6_FindingIffArtifactAbsent ==
    Audited =>
        LET a == code_quality[1]
            ci == \E i \in DOMAIN a.suggestions : a.suggestions[i].type = "ci_cd"
        IN  /\ ("Missing README.md" \in IssueTitles(a)) <=> ~Exists(repo, {ReadmePath})
            /\ ("Missing License" \in IssueTitles(a)) <=> ~Exists(repo, Range(LicenseFiles))
            /\ ("Missing Dependencies File" \in IssueTitles(a)) <=> ~Exists(repo, Range(ReqFiles))
            /\ ("Missing Tests" \in IssueTitles(a)) <=> ~Exists(repo, TestPaths)
            /\ ci <=> ~Exists(repo, {WorkflowsPath})

(***************************************************************************)
(* Properties of the AI assist adapter (SpecAI)                            *)
(***************************************************************************)

AiEnded == aiPc \in {"done", "raised"}
FailedOutcomes == {"call_raised", "unparsable", "scores_not_dict"}
ProviderFailed(provider) ==
    \E i \in DOMAIN aiCalls : aiCalls[i].provider = provider /\ aiCalls[i].outcome \in FailedOutcomes
ProviderTried(provider) == \E i \in DOMAIN aiCalls : aiCalls[i].provider = provider

\* C3: with both providers configured, every failure of the OpenAI call (the
\* call raises, or its completion does not parse as JSON) is followed by a
\* call of Anthropic, and the fallback result is returned only after both
\* have failed.
C3_AnyPrimaryFailureTriesSecondary ==
    (aiPc = "done" /\ openai_client /\ anthropic_client) =>
        /\ ProviderFailed("openai") => ProviderTried("anthropic")
        /\ ai_analysis = <<FallbackResult>> => ProviderFailed("openai") /\ ProviderFailed("anthropic")

\* C8: with no provider configured, analyze_repository_with_ai returns the
\* fallback result whatever the sample files are: three scores of 70, one
\* issue titled "AI Analysis Unavailable", one suggestion to enable AI, and
\* no provider call.
C8_NoProviderAlwaysFallback ==
    (AiEnded /\ ~openai_client /\ ~anthropic_client) =>
        /\ aiPc = "done"
        /\ aiCalls = <<>>
        /\ ai_analysis # Unset
        /\ LET a == ai_analysis[1]
           IN  /\ a.code_quality_score = 70 /\ a.security_score = 70 /\ a.maintainability_score = 70
               /\ Len(a.issues) = 1 /\ a.issues[1].title = "AI Analysis Unavailable"
               /\ Len(a.suggestions) = 1 /\ a.suggestions[1].title = "Enable AI Analysis"

RaisedOutcomes == {"call_raised", "scores_not_dict"}
CallsOf(provider) == {i \in DOMAIN aiCalls : aiCalls[i].provider = provider}

\* C24: the providers are called one after the other: Anthropic is called
\* only if OpenAI is not configured or its call has already ended with an
\* exception in this call, no two calls are pending together, and each
\* provider is called at most once.
C24_ProvidersAreAChain ==
    /\ \A i \in CallsOf("anthropic") :
          \/ ~openai_client
          \/ \E j \in CallsOf("openai") : j < i /\ aiCalls[j].outcome \in RaisedOutcomes
    /\ \A i \in DOMAIN aiCalls : aiCalls[i].outcome = "pending" => i = Len(aiCalls)
    /\ Cardinality(CallsOf("openai")) <= 1
    /\ Cardinality(CallsOf("anthropic")) <= 1
    /\ (aiPc = "openai_pending" \/ aiPc = "anthropic_pending")
          <=> (aiCalls # <<>> /\ aiCalls[Len(aiCalls)].outcome = "pending")

\* OpenAI's call raised, then Anthropic was called and answered
C24_Witness ==
    /\ aiPc = "done"
    /\ openai_client /\ anthropic_client
    /\ Len(aiCalls) = 2
    /\ aiCalls[1] = [provider |-> "openai", outcome |-> "call_raised"]
    /\ aiCalls[2] = [provider |-> "anthropic", outcome |-> "parsed"]

(***************************************************************************)
(* Properties of the task-board mapper (SpecBoard)                         *)
(***************************************************************************)

BatchOver == batchPc \in {"returned", "raised"}
CardIds(cards) == {cards[i].id : i \in DOMAIN cards}
OneFaultInjected == faultsLeft = MaxFaults - 1

\* C1: in create_analysis_cards and create_issue_cards a card whose creation
\* fails at the board never aborts the batch: no exception leaves the
\* operation, create_card is called for every item, the cards created stay on
\* the board and are the ones returned, and with one failing collaborator call
\* on a board that has lists n-1 cards are returned.
C1_FailedCardNeverAbortsBatch ==
    batchOp \in {"create_analysis_cards", "create_issue_cards"} =>
        /\ batchPc # "raised"
        /\ batchPc = "returned" =>
            /\ Len(card_calls) = Len(batchItems)
            /\ CardIds(boardCards) = CardIds(created_cards)
            /\ (board /\ boardLists # <<>> /\ OneFaultInjected) =>
                    Len(created_cards) >= Len(batchItems) - 1

HasLabel(item, name) == \E l \in Range(Get(item, "labels", <<>>)) : l = name
HasLabelAnyCase(item, name) == \E l \in Range(Get(item, "labels", <<>>)) : StrLower(l) = name

\* The routing table as the specification states it, the labels of a remote
\* issue compared as written (Exact) or with their case ignored.
RoutedList(it, Has(_, _)) ==
    CASE it.kind = "issue" ->
            IF "severity" \in DOMAIN it.item /\ it.item.severity = "critical" THEN "Critical"
            ELSE IF "severity" \in DOMAIN it.item /\ it.item.severity = "high" THEN "High Priority"
            ELSE "To Do"
      [] it.kind = "suggestion" -> "Suggestions"
      [] it.kind = "github_issue" ->
            IF Has(it.item, "bug") THEN "Bugs"
            ELSE IF Has(it.item, "enhancement") THEN "Enhancements"
            ELSE "To Do"
      [] it.kind = "summary" -> "Summary"

\* C4 (as stated): the list name asked of create_card is the table's, a remote
\* issue going to "Bugs" if its labels include "bug", else to "Enhancements" if
\* they include "enhancement", else to "To Do".
C4_ListNameExactLabels ==
    \A i \in DOMAIN card_calls :
        card_calls[i].list_name = RoutedList(batchItems[card_calls[i].pos], HasLabel)

\* C4 (amended): the list name asked of create_card is the table's: severity
\* "critical" to "Critical", "high" to "High Priority", any other or none to
\* "To Do"; a suggestion to "Suggestions"; a remote issue to "Bugs" if one of
\* its labels is "bug" in any letter case, else to "Enhancements" if one is
\* "enhancement" in any letter case, else to "To Do"; the summary to "Summary".
C4_ListNameIsFunctionOfItem ==
    \A i \in DOMAIN card_calls :
        card_calls[i].list_name = RoutedList(batchItems[card_calls[i].pos], HasLabelAnyCase)

\* create_issue_cards has asked for "Bugs" for an issue labelled "Bug", and
\* create_analysis_cards for "Critical".
C4_Witness ==
    \E i \in DOMAIN card_calls :
        LET it == batchItems[card_calls[i].pos]
        IN  /\ it.kind = "github_issue"
            /\ HasLabel(it.item, "Bug") /\ ~HasLabel(it.item, "bug")
            /\ card_calls[i].list_name = "Bugs"

\* config.TRELLO_LABELS: the colour of each category's label
TRELLO_LABELS ==
    << <<"security", "red">>, <<"bug", "red">>, <<"enhancement", "blue">>,
       <<"documentation", "green">>, <<"testing", "yellow">>, <<"performance", "orange">>,
       <<"code-quality", "purple">>, <<"suggestion", "sky">>, <<"summary", "lime">>,
       <<"mcp", "black">> >>

\* the labels the run has created: those the board did not start with
InitialLabels == UNION {Range(b) : b \in BoardLabelChoices}
CreatedLabels == {i \in DOMAIN boardLabels : boardLabels[i] \notin InitialLabels}

\* C15: a label created on demand for a card has the colour the category
\* table gives its name.
C15_CreatedLabelHasTableColour ==
    \A i \in CreatedLabels : \A k \in DOMAIN TRELLO_LABELS :
        boardLabels[i].name = TRELLO_LABELS[k][1] =>
            boardLabels[i].color = TRELLO_LABELS[k][2]

\* C16: the board never holds two labels whose names are equal ignoring case,
\* whatever call failed before: a label is created only when there is none of
\* its name.
C16_NoTwoLabelsOfOneName ==
    \A i, j \in DOMAIN boardLabels :
        i # j => StrLower(boardLabels[i].name) # StrLower(boardLabels[j].name)

\* create_card prints "Warning: Trello board not accessible" each time it is
\* called without a board handle
BoardWarnings == IF board THEN 0 ELSE Len(card_calls)

\* C20: without a board handle a batch of create_analysis_cards or
\* create_issue_cards writes nothing to the board, returns an empty list, and
\* reports the missing board at most once, not once for every item.
C20_NoBoardReportedOnce ==
    (~board /\ batchOp \in {"create_analysis_cards", "create_issue_cards"}) =>
        /\ batchPc # "raised"
        /\ boardCards = <<>>
        /\ CreatedLabels = {}
        /\ created_cards = <<>>
        /\ BoardWarnings <= 1

\* the create_card call a step has made returned None
ReturnedNone(calls_before, calls_after) ==
    /\ Len(calls_after) = Len(calls_before) + 1
    /\ ~calls_after[Len(calls_after)].raised
    /\ calls_after[Len(calls_after)].card = NoCard

\* C26: a create_card call that returns None has added no card to the board,
\* whichever collaborator call failed in it.
C26_NoneLeavesNoCard ==
    [][ReturnedNone(card_calls, card_calls') => boardCards' = boardCards]_vars

\* the name of the board list a card of the board is in
ListNameOf(card_id) ==
    LET at == CHOOSE i \in DOMAIN boardCards : boardCards[i].id = card_id
        l == CHOOSE j \in DOMAIN boardLists : boardLists[j].id = boardCards[at].idList
    IN  boardLists[l].name

\* C27: the list_name of a card record create_card returns is the name, up
\* to letter case, of the board list the card was added to, whatever lists
\* the board has.
C27_ListNameIsTheCardsList ==
    \A i \in DOMAIN card_calls :
        card_calls[i].card # NoCard =>
            StrLower(card_calls[i].card[1].list_name)
                = StrLower(ListNameOf(card_calls[i].card[1].id))

\* C28: a fetch of the board's lists that failed is not kept: the lists
\* cache, once set, holds the board's lists, and on a board that has lists
\* the calls after a create_card that returned None for the one failing
\* collaborator call return a card.
C28_FailedFetchIsNotKept ==
    /\ lists_cache # Unset => lists_cache[1] = boardLists
    /\ (board /\ boardLists # <<>> /\ MaxFaults - faultsLeft <= 1) =>
          \A i \in DOMAIN card_calls :
              (i > 1 /\ ~card_calls[1].raised /\ card_calls[1].card = NoCard)
                  => card_calls[i].card # NoCard

(***************************************************************************)
(* Properties of the entry points (SpecTool)                               *)
(***************************************************************************)

IsPrefix(a, b) == Len(a) <= Len(b) /\ \A i \in DOMAIN a : a[i] = b[i]

\* create_analysis_cards is running on the combined analysis
HandedToMapper ==
    /\ toolPc = "analysis_cards"
    /\ combined_analysis # Unset
    /\ batchItems = AnalysisItems(combined_analysis[1])

\* C2: in the tool and in the workflow the combined analysis handed to
\* create_analysis_cards holds every issue and suggestion of the structural
\* audit, before those of the AI result (a provider's or the fallback); no
\* failure of the AI call removes a structural finding.
C2_StructuralFindingsFirst ==
    toolPc = "analysis_cards" =>
        /\ HandedToMapper
        /\ LET cq == code_quality[1]
               c == combined_analysis[1]
           IN  /\ IsPrefix(cq.issues, c.issues)
               /\ IsPrefix(cq.suggestions, c.suggestions)
               /\ ai_analysis # Unset =>
                    /\ c.issues = cq.issues \o ai_analysis[1].issues
                    /\ c.suggestions = cq.suggestions \o ai_analysis[1].suggestions

\* C7: in the tool and in the workflow, the score of a combined analysis built
\* from the audit's result and an AI result is
\* floor((structural score + AI code_quality score) / 2).
C7_ScoreIsFloorAverage ==
    (combined_analysis # Unset /\ ai_analysis # Unset) =>
        combined_analysis[1].score =
            (code_quality[1].score + ai_analysis[1].code_quality_score) \div 2

\* every provider call gave a parsed result, and every card asked for was made
AllCallsSucceeded ==
    /\ aiPc = "done"
    /\ \A i \in DOMAIN aiCalls : aiCalls[i].outcome = "parsed"
    /\ \A i \in DOMAIN card_calls : ~card_calls[i].raised /\ card_calls[i].card # NoCard
    /\ (create_trello_tasks /\ trello_manager) =>
            /\ trello_results # Unset
            /\ "error" \notin DOMAIN trello_results[1]
            /\ trello_results[1].summary_card_created
            /\ trello_results[1].total_cards_created =
                    Len(combined_analysis[1].issues) + Len(combined_analysis[1].suggestions)
                    + Len(recent_issues) + 1

\* C9: with the token configured, the repository accessible and every
\* collaborator call succeeding, the analyze_repository tool returns the
\* "Repository Analysis Results" summary and no "Error analyzing repository".
C9_SuccessPayloadWhenAllSucceeds ==
    (entry = Tool /\ toolPc = "done" /\ github_analyzer /\ repo_url # None /\ repo_found
        /\ AllCallsSucceeded) =>
        /\ payload[1].head = "# Repository Analysis Results"
        /\ payload[1].head # "Error analyzing repository: "

\* the severities of an issue
Severities == {"low", "medium", "high", "critical"}

\* C17: every issue of a combined analysis has a title and a description
\* that are not empty and a severity among low, medium, high and critical,
\* whatever JSON object the provider returned.
C17_IssuesAreWellFormed ==
    combined_analysis # Unset =>
        \A i \in DOMAIN combined_analysis[1].issues :
            LET issue == combined_analysis[1].issues[i]
            IN  /\ "title" \in DOMAIN issue /\ issue.title # ""
                /\ "description" \in DOMAIN issue /\ issue.description # ""
                /\ "severity" \in DOMAIN issue /\ issue.severity \in Severities

\* C19: the score of a combined analysis is an integer from 0 to 100,
\* whatever scores the provider returned.
C19_ScoreInRange ==
    combined_analysis # Unset =>
        /\ combined_analysis[1].score \in Int
        /\ combined_analysis[1].score >= 0
        /\ combined_analysis[1].score <= 100

\* the payloads of analyze_repository that report an error
ErrorHeads ==
    { "Error analyzing repository: ", "Could not access repository: ",
      "GitHub token not configured. Please set GITHUB_TOKEN environment variable.",
      "Repository URL is required." }

\* C29: a call of analyze_repository that returns an error payload has
\* created no card on the board.
C29_ErrorPayloadMeansNoCard ==
    (entry = Tool /\ payload # Unset /\ payload[1].head \in ErrorHeads) => boardCards = <<>>

IsSummaryCard(card) == card.name[1] = "Analysis Summary: "
SummaryCardCalled == batchOp = "create_summary_card"

Scanned == scan_result # Unset

\* the number of lines of a text: one more than its newlines
LineCount(text) == Cardinality({i \in DOMAIN text : text[i] = "\n"}) + 1

\* no line of the text matches a category rule or holds a language rule's marker
LineMatchesNoRule(line) ==
    /\ ~AnyPattern(SecurityPatterns, line)
    /\ ~AnyPattern(CodeQualityPatterns, line)
    /\ ~AnyPattern(PerformancePatterns, line)
    /\ \A marker \in {ImportStar, PrintCall, ConsoleLogCall, DebuggerStatement} :
            ~Contains(line, marker)
NoLineMatches(text) ==
    \A line \in Range(Split(text, "\n")) : LineMatchesNoRule(line)

\* C10 (as stated): for a content of any length, the empty one and those of
\* more than 1000 lines included, in which no line matches a rule, the result
\* has no issues, no suggestions, and a total_lines equal to the number of
\* lines of the content.
C10_NoMatchAnyLength ==
    (Scanned /\ NoLineMatches(scan_content)) =>
        /\ scan_result[1].issues = <<>>
        /\ scan_result[1].suggestions = <<>>
        /\ "total_lines" \in DOMAIN scan_result[1]
        /\ scan_result[1].total_lines = LineCount(scan_content)

\* C10 (amended): for a content in which no line matches a rule the result
\* has no issues; if the content is not empty, total_lines is the number of
\* its lines, trailing blank lines counted, and there is no suggestion up to
\* 1000 lines and the one file_size suggestion above; for the empty content
\* there is no suggestion and no total_lines field.
C10_NoMatchIsEmptyResult ==
    (Scanned /\ NoLineMatches(scan_content)) =>
        /\ scan_result[1].issues = <<>>
        /\ IF scan_content = <<>>
           THEN /\ scan_result[1].suggestions = <<>>
                /\ "total_lines" \notin DOMAIN scan_result[1]
           ELSE /\ scan_result[1].total_lines = LineCount(scan_content)
                /\ IF LineCount(scan_content) <= 1000
                   THEN scan_result[1].suggestions = <<>>
                   ELSE /\ Len(scan_result[1].suggestions) = 1
                        /\ scan_result[1].suggestions[1].type = "file_size"

\* a content of exactly 1000 lines, the last ones blank, none matching a rule,
\* has been scanned: 1000 lines counted and nothing found
C10_Witness ==
    /\ Scanned
    /\ scan_content # <<>>
    /\ NoLineMatches(scan_content)
    /\ scan_content[Len(scan_content)] = "\n"
    /\ scan_result[1].total_lines = 1000
    /\ scan_result[1].issues = <<>>
    /\ scan_result[1].suggestions = <<>>

\* the lines of the content scanned, and the findings reported for line i
ScanLines == Split(scan_content, "\n")
IssuesAt(i, type) ==
    {k \in DOMAIN scan_result[1].issues :
        scan_result[1].issues[k].line = i /\ scan_result[1].issues[k].type = type}
FindingsAt(i) ==
    {k \in DOMAIN scan_result[1].issues : scan_result[1].issues[k].line = i}
    \cup {-k : k \in {j \in DOMAIN scan_result[1].suggestions :
                         /\ scan_result[1].suggestions[j].type # "file_size"
                         /\ scan_result[1].suggestions[j].line = i}}

\* C11: a line that is no comment and matches a security rule gets exactly
\* one security issue, of severity "high", however many security rules it
\* matches; it gets a code_quality (performance) issue only if it matches a
\* code_quality (performance) rule itself.
C11_OneSecurityIssuePerLine ==
    Scanned =>
        \A lines \in {ScanLines} : \A i \in DOMAIN lines :
            (~Skipped(lines[i]) /\ AnyPattern(SecurityPatterns, lines[i])) =>
                /\ Cardinality(IssuesAt(i, "security")) = 1
                /\ \A k \in IssuesAt(i, "security") :
                        scan_result[1].issues[k].severity = "high"
                /\ IssuesAt(i, "code_quality") # {} =>
                        AnyPattern(CodeQualityPatterns, lines[i])
                /\ IssuesAt(i, "performance") # {} =>
                        AnyPattern(PerformancePatterns, lines[i])

\* password = "x" alone has one security issue and no other; a line that
\* matches two security rules, exec(eval(s)), has one as well
C11_Witness ==
    /\ Scanned
    /\ ScanLines = <<LinePassword, LineExecEval>>
    /\ Len(scan_result[1].issues) = 2
    /\ \A k \in 1..2 : /\ scan_result[1].issues[k].type = "security"
                        /\ scan_result[1].issues[k].severity = "high"
                        /\ scan_result[1].issues[k].line = k

HasMarkerAnyCase(line) ==
    Contains(Lower(line), Lower(TodoMarker)) \/ Contains(Lower(line), Lower(FixmeMarker))

\* C13: a line that is no comment and matches a code_quality rule gets
\* exactly one code_quality issue; its severity is "low" if the line holds a
\* TODO: or FIXME: marker in any letter case, as the rules match it, and
\* "medium" otherwise.
C13_CodeQualitySeverityIgnoresCase ==
    Scanned =>
        \A lines \in {ScanLines} : \A i \in DOMAIN lines :
            (~Skipped(lines[i]) /\ AnyPattern(CodeQualityPatterns, lines[i])) =>
                /\ Cardinality(IssuesAt(i, "code_quality")) = 1
                /\ \A k \in IssuesAt(i, "code_quality") :
                        scan_result[1].issues[k].severity =
                            IF HasMarkerAnyCase(lines[i]) THEN "low" ELSE "medium"

\* a loop header line followed by an indented loop header line
LoopHeader(line) ==
    LET t == Strip(line)
    IN  /\ StartsWith(t, <<"f", "o", "r", " ">>)
        /\ Contains(t, <<" ", "i", "n", " ">>)
        /\ t[Len(t)] = ":"
Indented(line) == line # <<>> /\ line[1] \in Whitespace
NestedLoopAt(lines, i) ==
    /\ i + 1 \in DOMAIN lines
    /\ LoopHeader(lines[i]) /\ ~Indented(lines[i])
    /\ LoopHeader(lines[i + 1]) /\ Indented(lines[i + 1])

\* C14: a file with a loop header line immediately followed by an indented
\* loop header line gets a performance issue of severity "medium".
C14_NestedLoopReported ==
    (Scanned /\ \E lines \in {ScanLines} : \E i \in DOMAIN lines : NestedLoopAt(lines, i)) =>
        \E k \in DOMAIN scan_result[1].issues :
            /\ scan_result[1].issues[k].type = "performance"
            /\ scan_result[1].issues[k].severity = "medium"

(***************************************************************************)
(* Properties of the summary (SpecSummary)                                 *)
(***************************************************************************)

\* the sum of the counts of a dict
RECURSIVE SumOver(_, _)
SumOver(d, keys) ==
    IF keys = {} THEN 0
    ELSE LET k == CHOOSE x \in keys : TRUE IN d[k] + SumOver(d, keys \ {k})
SumOfCounts(d) == SumOver(d, DOMAIN d)

\* C18: in the summary of any analysis, the counts by type and the counts by
\* severity each add up to total_issues, the number of issues handed in,
\* issues without a type, without a severity or of severity "critical"
\* included; the counts of the suggestions by type add up to
\* total_suggestions.
C18_CountsSumToTotals ==
    summary # Unset =>
        /\ summary[1].total_issues = Len(Get(summary_analysis, "issues", <<>>))
        /\ summary[1].total_suggestions = Len(Get(summary_analysis, "suggestions", <<>>))
        /\ SumOfCounts(summary[1].issue_types) = summary[1].total_issues
        /\ SumOfCounts(summary[1].issue_severities) = summary[1].total_issues
        /\ SumOfCounts(summary[1].suggestion_types) = summary[1].total_suggestions

\* an issue of severity "critical" and one without type and severity have
\* been counted
C18_Witness ==
    /\ summary # Unset
    /\ summary[1].total_issues = 2
    /\ summary[1].issue_severities =
            [high |-> 0, medium |-> 1, low |-> 0, critical |-> 1]
    /\ summary[1].issue_types = [security |-> 1, unknown |-> 1]
    /\ summary[1].total_suggestions = 2

(***************************************************************************)
(* Properties of the list_repositories tool (SpecList)                     *)
(***************************************************************************)

\* the code host failed while the repositories were listed
ListingFailed ==
    /\ list_github
    /\ list_username \notin {None, ""}
    /\ list_remote.kind # "repos"

\* C21: when the code host fails while the repositories are listed, what the
\* tool returns is no "Repositories for <user>" listing with an entry.
C21_FailureIsNoListing ==
    (list_payload # Unset /\ ListingFailed) =>
        ~(/\ list_payload[1].head = "# Repositories for "
          /\ list_payload[1].entries # <<>>)

\* the lines the javascript rule is about
DebuggerLine(line) ==
    /\ FileExt(scan_filename) \in JavascriptExts
    /\ ~Skipped(line)
    /\ Contains(line, DebuggerStatement)

OnePerCategory(i) ==
    /\ \A type \in {"security", "code_quality", "performance", "javascript"} :
          Cardinality(IssuesAt(i, type)) <= 1
    /\ \A k \in DOMAIN scan_result[1].issues :
          scan_result[1].issues[k].line = i =>
             scan_result[1].issues[k].type
                \in {"security", "code_quality", "performance", "javascript"}

\* C23 as stated: at most one issue a line of each of the three categories;
\* a javascript issue only on a debugger line of a .js/.jsx/.ts/.tsx file, and
\* such a line has exactly two issues, a code_quality one of severity "medium"
\* and a javascript one of severity "high".
C23_DebuggerLineHasTwoIssues ==
    Scanned =>
        \A lines \in {ScanLines} : \A i \in DOMAIN lines :
            /\ OnePerCategory(i)
            /\ IssuesAt(i, "javascript") # {} => DebuggerLine(lines[i])
            /\ DebuggerLine(lines[i]) =>
                /\ Cardinality({k \in DOMAIN scan_result[1].issues :
                                    scan_result[1].issues[k].line = i}) = 2
                /\ \E k \in IssuesAt(i, "code_quality") :
                        scan_result[1].issues[k].severity = "medium"
                /\ \E k \in IssuesAt(i, "javascript") :
                        scan_result[1].issues[k].severity = "high"

\* C23, amended: at most one issue a line of each of the three categories; a
\* javascript issue only on a debugger line of a .js/.jsx/.ts/.tsx file, and
\* such a line has one javascript issue of severity "high" and one
\* code_quality issue, of severity "low" if the line holds TODO: or FIXME: and
\* "medium" otherwise, besides the security and performance issues its other
\* matches give it.
C23_DebuggerLineHasBothIssues ==
    Scanned =>
        \A lines \in {ScanLines} : \A i \in DOMAIN lines :
            /\ OnePerCategory(i)
            /\ IssuesAt(i, "javascript") # {} => DebuggerLine(lines[i])
            /\ DebuggerLine(lines[i]) =>
                /\ Cardinality(IssuesAt(i, "code_quality")) = 1
                /\ \A k \in IssuesAt(i, "code_quality") :
                        scan_result[1].issues[k].severity
                            = IF Contains(lines[i], TodoMarker)
                                 \/ Contains(lines[i], FixmeMarker)
                              THEN "low" ELSE "medium"
                /\ Cardinality(IssuesAt(i, "javascript")) = 1
                /\ \A k \in IssuesAt(i, "javascript") :
                        scan_result[1].issues[k].severity = "high"
                /\ IssuesAt(i, "security") # {} <=> AnyPattern(SecurityPatterns, lines[i])
                /\ IssuesAt(i, "performance") # {}
                        <=> AnyPattern(PerformancePatterns, lines[i])

\* a plain debugger line and one that also calls eval and holds a marker
C23_Witness ==
    /\ Scanned
    /\ ScanLines = <<LineDebugger, LineEvalDebuggerTodo>>
    /\ FileExt(scan_filename) \in JavascriptExts
    /\ Len(scan_result[1].issues) = 5
    /\ Cardinality(IssuesAt(1, "code_quality")) = 1
    /\ Cardinality(IssuesAt(1, "javascript")) = 1
    /\ Cardinality(IssuesAt(2, "security")) = 1
    /\ \A k \in IssuesAt(2, "code_quality") : scan_result[1].issues[k].severity = "low"

(***************************************************************************)
(* Properties of one analyzer called repeatedly (SpecCalls)                *)
(***************************************************************************)

SameArguments(c, d) == c.content = d.content /\ c.filename = d.filename

SelectedFiles == Slice(collect_files(files_repo.entries), 0, files_max)
Contribution(file, field) ==
    IF file.readable THEN analyze_file_content(file.text, file.name)[field] ELSE <<>>

\* C25: whatever the listing is and whichever selected files cannot be read,
\* exactly those files are passed over and every other selected file is
\* analysed: the issues and suggestions are those of the readable selected
\* files in iteration order, analyzed_files is their number, and
\* analyzed_files <= total_files_found <= max_files.
C25_UnreadableFilesAreSkipped ==
    (files_result # Unset /\ files_repo.ok) =>
        \A selected \in {SelectedFiles} :
            /\ "error" \notin DOMAIN files_result[1]
            /\ files_result[1].total_files_found = Len(selected)
            /\ files_result[1].analyzed_files
                  = Cardinality({k \in DOMAIN selected : selected[k].readable})
            /\ files_result[1].analyzed_files <= files_result[1].total_files_found
            /\ files_result[1].total_files_found <= files_max
            /\ files_result[1].issues
                  = FlattenRange([k \in DOMAIN selected |-> Contribution(selected[k], "issues")],
                                 1, Len(selected))
            /\ files_result[1].suggestions
                  = FlattenRange([k \in DOMAIN selected |->
                                     Contribution(selected[k], "suggestions")],
                                 1, Len(selected))

\* four files found and two kept; the first cannot be read, the second is analysed
C25_Witness ==
    /\ files_result # Unset
    /\ files_repo = [ok |-> TRUE, entries |-> <<FileUnreadable, FilePy, DirSrc>>]
    /\ files_max = 2
    /\ files_result[1].total_files_found = 2
    /\ files_result[1].analyzed_files = 1
    /\ Len(files_result[1].issues) = 1
    /\ files_result[1].issues[1].type = "security"

====
